---- MODULE Spec2Model ----
(***************************************************************************)
(* A model of the query-intent gateway of AI_JARVIS: the privilege (sudo)  *)
(* session managers, the command security gate and shell executor, and     *)
(* the response cache.  Time is the wall clock read by datetime.now(),     *)
(* counted in whole seconds.  Strings are sequences of one-character       *)
(* strings, so that lower(), strip() and the substring test are computed.  *)
(***************************************************************************)
EXTENDS Integers, Sequences, FiniteSets, TLC

(***************************************************************************)
(* Bounds of the model.                                                    *)
(***************************************************************************)
\* The clock runs from 0 to MaxTime.
MaxTime == 4
\* Largest duration a caller passes to activate_sudo_mode.
MaxDuration == 2
\* The configured security.sudo_mode_duration (300 by default).
sudo_mode_duration == 1
\* Callers that run activate_sudo_mode at once.
NumCallers == 2
\* The configured cache_size (100 by default).
cache_size == 2
\* Largest max_entries a ResponseCache is constructed with.
MaxEntries == 3
\* Largest ttl a caller passes to set.
MaxTtl == 1
\* The clock of the cache runs from 0 to MaxCacheTime.
MaxCacheTime == 2
\* Largest ContextManager.max_history, the configured history_size (10 by default).
MaxHistory == 4
\* The provider answers at most this many queries of one backend.
MaxAnswers == 2
MaxRetries == 3
MaxBackoff == 2

(***************************************************************************)
(* Strings.                                                                *)
(***************************************************************************)
UpperCase == <<"A", "B", "C", "D", "E", "F", "G", "H", "I", "J", "K", "L", "M",
               "N", "O", "P", "Q", "R", "S", "T", "U", "V", "W", "X", "Y", "Z">>
LowerCase == <<"a", "b", "c", "d", "e", "f", "g", "h", "i", "j", "k", "l", "m",
               "n", "o", "p", "q", "r", "s", "t", "u", "v", "w", "x", "y", "z">>
Whitespace == {" ", "\t", "\n"}

UpperSet == {UpperCase[i] : i \in 1..Len(UpperCase)}
LowerTable ==
    [u \in UpperSet |-> LowerCase[CHOOSE i \in 1..Len(UpperCase) : UpperCase[i] = u]]

LowerChar(c) == IF c \in UpperSet THEN LowerTable[c] ELSE c

\* str.lower()
Lower(s) == [i \in 1..Len(s) |-> LowerChar(s[i])]

SetMin(S) == CHOOSE x \in S : \A y \in S : x <= y
SetMax(S) == CHOOSE x \in S : \A y \in S : x >= y

\* str.strip()
Strip(s) ==
    LET idx == {i \in 1..Len(s) : s[i] \notin Whitespace}
    IN  IF idx = {} THEN <<>> ELSE SubSeq(s, SetMin(idx), SetMax(idx))

\* sub in s
Contains(s, sub) ==
    \E i \in 0..(Len(s) - Len(sub)) : SubSeq(s, i + 1, i + Len(sub)) = sub

\* The segment stands in s at place i.
MatchAt(s, seg, i) ==
    /\ i + Len(seg) - 1 <= Len(s)
    /\ SubSeq(s, i, i + Len(seg) - 1) = seg

DigitChars == <<"0", "1", "2", "3", "4", "5", "6", "7", "8", "9">>
IsDigit(c) == \E i \in 1..Len(DigitChars) : DigitChars[i] = c
DigitValue(c) == (CHOOSE i \in 1..Len(DigitChars) : DigitChars[i] = c) - 1

RECURSIVE DecimalValue(_)
DecimalValue(ds) ==
    IF ds = <<>> THEN 0
    ELSE 10 * DecimalValue(SubSeq(ds, 1, Len(ds) - 1)) + DigitValue(ds[Len(ds)])

\* str(n)
RECURSIVE Numeral(_)
Numeral(n) ==
    IF n < 0 THEN <<"-">> \o Numeral(0 - n)
    ELSE IF n < 10 THEN <<DigitChars[n + 1]>>
    ELSE Numeral(n \div 10) \o <<DigitChars[(n % 10) + 1]>>

(***************************************************************************)
(* State.                                                                  *)
(***************************************************************************)
VARIABLES
    now,                    \* datetime.now(), in seconds
    current_session,        \* EnhancedSecurityManager.current_session
    sudo_session,           \* CommandExecutor.sudo_session (jarvis.security.SudoSession)
    allow_system_commands,  \* security_config['allow_system_commands']
    duration_seconds,       \* CommandExecutor.sudo_session.duration_seconds
    default_sudo_duration,  \* EnhancedSecurityManager.default_sudo_duration
    xpc,                    \* where _execute_shell stands: "idle" or "run"
    xcommand,               \* _execute_shell's command
    xallowed,               \* _execute_shell's local allowed
    xreason,                \* _execute_shell's local reason
    cpc,                    \* concurrent callers of activate_sudo_mode: where each stands
    carg,                   \* concurrent callers: the duration argument of each
    cres,                   \* concurrent callers: what each call returned and granted
    kpc,                    \* concurrent callers of the cache: where each stands in get or set
    kloc,                   \* concurrent callers of the cache: the locals of each call
    cache,                  \* ResponseCache.cache, in the dict's insertion order
    lastSet,                \* the latest set() with no clear() after it
    max_entries,            \* ResponseCache.max_entries
    sudo_keyword,           \* EnhancedSecurityManager.sudo_keyword
    allow_custom_sudo,      \* EnhancedSecurityManager.allow_custom_sudo
    allow_timed_sudo,       \* EnhancedSecurityManager.allow_timed_sudo
    smart_routing_enabled,  \* SmartRouter.smart_routing_enabled
    provider_mapping,       \* SmartRouter.provider_mapping
    current_provider,       \* AIBackend.current_provider
    provider_up,            \* the providers whose remote call answers now
    features,               \* config['features'], as CommandExecutor reads it
    intent,                 \* the intent parse_intent returned to _process_command
    calls,                  \* the calls _process_command made when it ran last
    effect,                 \* what the last execute() of an intent did outside
    max_history,            \* ContextManager.max_history
    history,                \* ContextManager.history
    added,                  \* every turn add_turn was given since the history was last empty
    user_info,              \* ContextManager.user_info
    enable_cache,           \* AdvancedAIBackend.enable_cache
    enable_context,         \* AdvancedAIBackend.enable_context
    lastQuery,              \* the latest query_sync call and how it was answered
    rpc,                    \* where retry_with_backoff stands: "idle", "call", "sleep" or "done"
    max_retries,            \* retry_with_backoff's max_retries
    backoff_factor,         \* retry_with_backoff's backoff_factor
    attempt,                \* retry_with_backoff's loop variable
    func_calls,             \* how often retry_with_backoff called func
    failures,               \* how many of those calls raised
    waits,                  \* the arguments of time.sleep, in order
    retry_outcome,                \* how retry_with_backoff ended
    ret                     \* the last operation and what it returned

execVars == <<sudo_session, allow_system_commands, duration_seconds, xpc, xcommand, xallowed, xreason>>
concVars == <<cpc, carg, cres, kpc, kloc>>
cacheVars == <<cache, lastSet, max_entries>>
keywordVars == <<sudo_keyword, default_sudo_duration, allow_custom_sudo, allow_timed_sudo>>
routerVars == <<smart_routing_enabled, provider_mapping, current_provider, provider_up>>
ctxVars == <<max_history, history, added, user_info>>
backendVars == <<enable_cache, enable_context, lastQuery>>
assistVars == <<features, intent, calls, effect>>
retryVars == <<rpc, max_retries, backoff_factor, attempt, func_calls, failures, waits, retry_outcome>>
restVars == <<keywordVars, retryVars, routerVars, ctxVars, backendVars, assistVars>>
vars == <<now, current_session, execVars, concVars, cacheVars, restVars, ret>>

\* What an operation returned: its name, its boolean result, its integer
\* result or argument, the command it was about, and its message.
Ret(op, ok, num, cmd, msg) ==
    [op |-> op, ok |-> ok, num |-> num, cmd |-> cmd, msg |-> msg]

(***************************************************************************)
(* enhanced-security.py: SudoSession and EnhancedSecurityManager.          *)
(***************************************************************************)
\* current_session = None
NoSession == [exists |-> FALSE, start_time |-> 0, end_time |-> 0, is_active |-> FALSE]

\* SudoSession(duration_seconds) constructed at time t
NewSession(d, t) ==
    [exists |-> TRUE, start_time |-> t, end_time |-> t + d, is_active |-> TRUE]

\* An expiry test that is one second late.
SessionExpiredLate(s, t) == t > s.end_time + 1

\* datetime.now() > self.end_time
SessionExpired(s, t) == t > s.end_time

\* The value SudoSession.is_valid() returns at time t.
Session_is_valid(s, t) == s.is_active /\ ~SessionExpired(s, t)

\* The session after SudoSession.is_valid() ran at time t (the lazy expiry).
Session_after_is_valid(s, t) ==
    IF s.is_active /\ SessionExpired(s, t) THEN [s EXCEPT !.is_active = FALSE] ELSE s

\* SudoSession.get_remaining_time() at time t
Session_get_remaining_time(s, t) ==
    IF ~Session_is_valid(s, t) THEN 0
    ELSE IF s.end_time - t > 0 THEN s.end_time - t ELSE 0

\* The duration_seconds argument: None, or an integer.
NoneArg == [given |-> FALSE, v |-> 0]
IntArg(d) == [given |-> TRUE, v |-> d]
DurationArgs == {NoneArg} \cup {IntArg(d) : d \in 0..MaxDuration}

\* The argument as the call writes it.
ArgText(a) == IF a.given THEN Numeral(a.v) ELSE <<"N", "o", "n", "e">>

\* duration_seconds or self.default_sudo_duration
EffectiveDuration(a) == IF a.given /\ a.v # 0 THEN a.v ELSE default_sudo_duration

\* An activation that never looks at the session it replaces.
activate_sudo_mode_overwrites(a) ==
    /\ current_session' = NewSession(EffectiveDuration(a), now)
    /\ ret' = Ret("activate_sudo_mode", TRUE, EffectiveDuration(a), ArgText(a), "Sudo mode activated")
    /\ UNCHANGED <<now, execVars, concVars, cacheVars, restVars>>

activate_sudo_mode(a) ==
    /\ IF current_session.exists /\ Session_is_valid(current_session, now)
       THEN /\ current_session' = Session_after_is_valid(current_session, now)
            /\ ret' = Ret("activate_sudo_mode", FALSE,
                          Session_get_remaining_time(current_session, now), ArgText(a),
                          "Sudo mode already active")
       ELSE /\ current_session' = NewSession(EffectiveDuration(a), now)
            /\ ret' = Ret("activate_sudo_mode", TRUE, EffectiveDuration(a), ArgText(a),
                          "Sudo mode activated")
    /\ UNCHANGED <<now, execVars, concVars, cacheVars, restVars>>

is_sudo_active ==
    /\ IF ~current_session.exists
       THEN /\ UNCHANGED current_session
            /\ ret' = Ret("is_sudo_active", FALSE, 0, <<>>, "")
       ELSE /\ current_session' = Session_after_is_valid(current_session, now)
            /\ ret' = Ret("is_sudo_active", Session_is_valid(current_session, now), 0, <<>>,
                          IF current_session.is_active /\ SessionExpired(current_session, now)
                          THEN "Sudo session expired" ELSE "")
    /\ UNCHANGED <<now, execVars, concVars, cacheVars, restVars>>

\* current_session.get_remaining_time(), as get_security_info calls it
get_remaining_time ==
    /\ current_session.exists
    /\ current_session' = Session_after_is_valid(current_session, now)
    /\ ret' = Ret("get_remaining_time", TRUE,
                  Session_get_remaining_time(current_session, now), <<>>, "")
    /\ UNCHANGED <<now, execVars, concVars, cacheVars, restVars>>

\* current_session.end_session()
end_session ==
    /\ current_session.exists
    /\ current_session' = [current_session EXCEPT !.is_active = FALSE]
    /\ ret' = Ret("end_session", TRUE, 0, <<>>, "")
    /\ UNCHANGED <<now, execVars, concVars, cacheVars, restVars>>

(***************************************************************************)
(* enhanced-security.py: EnhancedSecurityManager.execute_with_sudo.        *)
(***************************************************************************)
\* self.dangerous_commands, in their order
dangerous_commands == <<
    <<"r", "m", " ", "-", "r", "f">>,
    <<"d", "d", " ", "i", "f", "=">>,
    <<"m", "k", "f", "s">>,
    <<"f", "d", "i", "s", "k">>,
    <<"s", "h", "u", "t", "d", "o", "w", "n">>,
    <<"r", "e", "b", "o", "o", "t">>,
    <<"h", "a", "l", "t">>,
    <<"k", "i", "l", "l", " ", "-", "9">>,
    <<"p", "k", "i", "l", "l", " ", "-", "9">>,
    <<"c", "h", "m", "o", "d", " ", "7", "7", "7">>,
    <<"c", "h", "o", "w", "n">>,
    <<"u", "s", "e", "r", "m", "o", "d">>,
    <<"u", "s", "e", "r", "d", "e", "l">> >>

\* A check that compares the command as it was typed, letter case included.
check_dangerous_command_cased(command) ==
    \E i \in 1..Len(dangerous_commands) : Contains(command, dangerous_commands[i])

\* check_dangerous_command(command): its is_dangerous result
check_dangerous_command(command) ==
    \E i \in 1..Len(dangerous_commands) :
        Contains(Lower(command), Lower(dangerous_commands[i]))

\* execute_with_sudo(command); a subprocess that returns 0 is env_ok
execute_with_sudo(command) ==
    /\ current_session' = IF current_session.exists
                          THEN Session_after_is_valid(current_session, now)
                          ELSE current_session
    /\ IF ~(current_session.exists /\ Session_is_valid(current_session, now))
       THEN /\ ret' = Ret("execute_with_sudo", FALSE, 0, command, "Sudo mode not active")
            /\ effect' = "none"
       ELSE IF check_dangerous_command(command)
       THEN /\ ret' = Ret("execute_with_sudo", FALSE, 0, command,
                          "This command will NOT be executed for safety reasons")
            /\ effect' = "none"
       ELSE \E env_ok \in BOOLEAN :
            /\ ret' = Ret("execute_with_sudo", env_ok, 0, command,
                          IF env_ok THEN "Command executed successfully"
                          ELSE "Command execution failed")
            /\ effect' = "subprocess"
    /\ UNCHANGED <<now, execVars, concVars, cacheVars>>
    /\ UNCHANGED <<keywordVars, retryVars, routerVars, ctxVars, backendVars, features, intent, calls>>

(***************************************************************************)
(* enhanced-security.py: EnhancedSecurityManager.parse_sudo_keyword.       *)
(***************************************************************************)
\* The k-th smallest member of a set of numbers.
Kth(S, k) == CHOOSE x \in S : Cardinality({y \in S : y < x}) = k - 1

\* str.split(): the runs of characters that are not whitespace, in order
Split(s) ==
    LET starts == {i \in 1..Len(s) :
                      s[i] \notin Whitespace /\ (i = 1 \/ s[i - 1] \in Whitespace)}
        ends == {i \in 1..Len(s) :
                    s[i] \notin Whitespace /\ (i = Len(s) \/ s[i + 1] \in Whitespace)}
    IN  [k \in 1..Cardinality(starts) |-> SubSeq(s, Kth(starts, k), Kth(ends, k))]

\* int(token): an optional sign, then digits that single underscores may
\* separate; anything else raises ValueError (ok is FALSE)
ParseInt(token) ==
    LET signed == token # <<>> /\ token[1] \in {"+", "-"}
        body == IF signed THEN Tail(token) ELSE token
        wellFormed ==
            /\ body # <<>>
            /\ \A i \in 1..Len(body) : IsDigit(body[i]) \/ body[i] = "_"
            /\ IsDigit(body[1])
            /\ IsDigit(body[Len(body)])
            /\ \A i \in 1..(Len(body) - 1) : ~(body[i] = "_" /\ body[i + 1] = "_")
        magnitude == DecimalValue(SelectSeq(body, IsDigit))
    IN  IF ~wellFormed THEN [ok |-> FALSE, v |-> 0]
        ELSE [ok |-> TRUE, v |-> IF signed /\ token[1] = "-" THEN 0 - magnitude ELSE magnitude]

SudoCode == <<"s", "u", "d", "o", " ", "c", "o", "d", "e">>
Code == <<"c", "o", "d", "e">>

ParseResult(is_sudo, duration, reason) ==
    [is_sudo |-> is_sudo, duration |-> duration, reason |-> reason]

\* if self.sudo_keyword.lower() in user_lower
KeywordMatches(user_lower) == Contains(user_lower, Lower(sudo_keyword))

\* What parse_sudo_keyword(user_input) returns; a reason of None is "None".
parse_sudo_keyword_result(user_input) ==
    LET user_lower == Strip(Lower(user_input))
        parts == Split(user_lower)
        codes == {i \in 1..Len(parts) : parts[i] = Code /\ i + 1 <= Len(parts)}
        parsed == ParseInt(parts[SetMin(codes) + 1])
    IN  IF KeywordMatches(user_lower)
        THEN ParseResult(TRUE, default_sudo_duration, "Default sudo access")
        ELSE IF /\ allow_timed_sudo
                /\ Contains(user_lower, SudoCode)
                /\ codes # {}
                /\ parsed.ok
             THEN IF 0 < parsed.v /\ parsed.v <= 3600
                  THEN ParseResult(TRUE, parsed.v, "Sudo access for {time_value}s")
                  ELSE ParseResult(FALSE, 0, "Invalid time (max 1 hour)")
             ELSE IF allow_custom_sudo /\ user_lower = Lower(sudo_keyword)
                  THEN ParseResult(TRUE, default_sudo_duration, "Custom sudo access")
                  ELSE ParseResult(FALSE, 0, "None")

parse_sudo_keyword(user_input) ==
    /\ LET r == parse_sudo_keyword_result(user_input)
       IN  ret' = Ret("parse_sudo_keyword", r.is_sudo, r.duration, user_input, r.reason)
    /\ UNCHANGED <<now, current_session, execVars, concVars, cacheVars, restVars>>

\* The keywords and flags a configuration gives the manager.
DefaultKeyword == <<"s", "u", "d", "o", " ", "c", "o", "d", "e", " ", "0">>
Keywords == {DefaultKeyword, SudoCode, <<"o", "p", "e", "n", " ", "s", "e", "s", "a", "m", "e">>}

\* EnhancedSecurityManager(config)
EnhancedSecurityManager_init(keyword, custom, timed, duration) ==
    /\ sudo_keyword' = keyword
    /\ default_sudo_duration' = duration
    /\ allow_custom_sudo' = custom
    /\ allow_timed_sudo' = timed
    /\ current_session' = NoSession
    /\ ret' = Ret("EnhancedSecurityManager_init", TRUE, 0, keyword, "")
    /\ UNCHANGED <<now, execVars, concVars, cacheVars, retryVars, routerVars, ctxVars, backendVars, assistVars>>

\* customize_sudo_keyword(new_keyword)
customize_sudo_keyword(new_keyword) ==
    /\ IF ~allow_custom_sudo
       THEN /\ ret' = Ret("customize_sudo_keyword", FALSE, 0, new_keyword,
                          "Custom sudo keywords are disabled")
            /\ UNCHANGED sudo_keyword
       ELSE IF new_keyword = <<>> \/ Len(new_keyword) < 3
       THEN /\ ret' = Ret("customize_sudo_keyword", FALSE, 0, new_keyword,
                          "Sudo keyword must be at least 3 characters")
            /\ UNCHANGED sudo_keyword
       ELSE /\ sudo_keyword' = new_keyword
            /\ ret' = Ret("customize_sudo_keyword", TRUE, 0, new_keyword,
                          "Sudo keyword changed")
    /\ UNCHANGED <<default_sudo_duration, allow_custom_sudo, allow_timed_sudo>>
    /\ UNCHANGED <<now, current_session, execVars, concVars, cacheVars>>
    /\ UNCHANGED <<retryVars, routerVars, ctxVars, backendVars, assistVars>>

(***************************************************************************)
(* jarvis/security.py: SudoSession, as CommandExecutor holds it.           *)
(***************************************************************************)
\* active = False, session_start = None
SudoInactive == [active |-> FALSE, has_start |-> FALSE, session_start |-> 0]

\* elapsed > self.duration_seconds
SudoExpired(s, t) == t - s.session_start > duration_seconds

\* The value SudoSession.is_valid() returns at time t.
Sudo_is_valid(s, t) == s.active /\ s.has_start /\ ~SudoExpired(s, t)

\* The session after SudoSession.is_valid() ran at time t.
Sudo_after_is_valid(s, t) ==
    IF s.active /\ s.has_start /\ SudoExpired(s, t) THEN SudoInactive ELSE s

\* SudoSession.remaining_time() at time t
Sudo_remaining_time(s, t) ==
    IF ~Sudo_is_valid(s, t) THEN 0
    ELSE IF duration_seconds - (t - s.session_start) > 0
         THEN duration_seconds - (t - s.session_start) ELSE 0

SudoSession_activate ==
    /\ IF sudo_session.active /\ Sudo_is_valid(sudo_session, now)
       THEN /\ sudo_session' = Sudo_after_is_valid(sudo_session, now)
            /\ ret' = Ret("SudoSession_activate", FALSE, 0, <<>>, "Sudo session already active")
       ELSE /\ sudo_session' = [active |-> TRUE, has_start |-> TRUE, session_start |-> now]
            /\ ret' = Ret("SudoSession_activate", TRUE, duration_seconds, <<>>, "")
    /\ UNCHANGED <<now, current_session, allow_system_commands, duration_seconds, xpc, xcommand, xallowed, xreason>>
    /\ UNCHANGED <<concVars, cacheVars, restVars>>

\* CommandExecutor.check_sudo_keyword(text): the keyword is
\* config['sudo']['keyword'], 'sudo code' when the configuration omits it
check_sudo_keyword(text) ==
    /\ IF Contains(Lower(text), Lower(SudoCode))
       THEN IF sudo_session.active /\ Sudo_is_valid(sudo_session, now)
            THEN /\ sudo_session' = Sudo_after_is_valid(sudo_session, now)
                 /\ ret' = Ret("check_sudo_keyword", FALSE, 0, text, "Sudo session already active")
            ELSE /\ sudo_session' = [active |-> TRUE, has_start |-> TRUE, session_start |-> now]
                 /\ ret' = Ret("check_sudo_keyword", TRUE, 0, text, "")
       ELSE /\ UNCHANGED sudo_session
            /\ ret' = Ret("check_sudo_keyword", FALSE, 0, text, "")
    /\ UNCHANGED <<now, current_session, allow_system_commands, duration_seconds, xpc, xcommand, xallowed, xreason>>
    /\ UNCHANGED <<concVars, cacheVars, restVars>>

\* A deactivate that flips the flag instead of clearing it.
SudoSession_deactivate_toggles ==
    /\ sudo_session' = IF sudo_session.active THEN SudoInactive
                       ELSE [active |-> TRUE, has_start |-> sudo_session.has_start,
                             session_start |-> sudo_session.session_start]
    /\ ret' = Ret("SudoSession_deactivate", TRUE, 0, <<>>, "")
    /\ UNCHANGED <<now, current_session, allow_system_commands, duration_seconds, xpc, xcommand, xallowed, xreason>>
    /\ UNCHANGED <<concVars, cacheVars, restVars>>

SudoSession_deactivate ==
    /\ sudo_session' = SudoInactive
    /\ ret' = Ret("SudoSession_deactivate", TRUE, 0, <<>>, "")
    /\ UNCHANGED <<now, current_session, allow_system_commands, duration_seconds, xpc, xcommand, xallowed, xreason>>
    /\ UNCHANGED <<concVars, cacheVars, restVars>>

SudoSession_is_valid ==
    /\ sudo_session' = Sudo_after_is_valid(sudo_session, now)
    /\ ret' = Ret("SudoSession_is_valid", Sudo_is_valid(sudo_session, now), 0, <<>>, "")
    /\ UNCHANGED <<now, current_session, allow_system_commands, duration_seconds, xpc, xcommand, xallowed, xreason>>
    /\ UNCHANGED <<concVars, cacheVars, restVars>>

SudoSession_remaining_time ==
    /\ sudo_session' = Sudo_after_is_valid(sudo_session, now)
    /\ ret' = Ret("SudoSession_remaining_time", TRUE,
                  Sudo_remaining_time(sudo_session, now), <<>>, "")
    /\ UNCHANGED <<now, current_session, allow_system_commands, duration_seconds, xpc, xcommand, xallowed, xreason>>
    /\ UNCHANGED <<concVars, cacheVars, restVars>>

(***************************************************************************)
(* jarvis/security.py: SecurityChecker.                                    *)
(***************************************************************************)
\* SecurityChecker's default dangerous_keywords, in their order
dangerous_keywords == <<
    <<"r", "m", " ", "-", "r", "f">>,
    <<"m", "k", "f", "s">>,
    <<":", "(", ")", "{", ":", "|", ":", "&", "}", ";", ":">>,
    <<"s", "h", "u", "t", "d", "o", "w", "n", " ", "-", "h", " ", "n", "o", "w">>,
    <<"r", "e", "b", "o", "o", "t">>,
    <<"p", "o", "w", "e", "r", "o", "f", "f">>,
    <<"d", "d", " ", "i", "f", "=">>,
    <<"f", "o", "r", "m", "a", "t", " ", "c", ":">> >>

is_dangerous(command) ==
    \E i \in 1..Len(dangerous_keywords) :
        Contains(Lower(command), Lower(dangerous_keywords[i]))

Verdict(allowed, reason) == [allowed |-> allowed, reason |-> reason]

check_command_ignores_sudo(command, sudo_active) ==
    IF command = <<>> \/ Strip(command) = <<>>
    THEN Verdict(FALSE, "Empty command")
    ELSE IF is_dangerous(command)
         THEN Verdict(TRUE, "Allowed under sudo session")
         ELSE Verdict(TRUE, "Command is safe")

check_command(command, sudo_active) ==
    IF command = <<>> \/ Strip(command) = <<>>
    THEN Verdict(FALSE, "Empty command")
    ELSE IF is_dangerous(command)
         THEN IF sudo_active
              THEN Verdict(TRUE, "Allowed under sudo session")
              ELSE Verdict(FALSE, "Command contains dangerous keywords and sudo not active")
         ELSE Verdict(TRUE, "Command is safe")

(***************************************************************************)
(* jarvis/command_executor.py: CommandExecutor._execute_shell, in the two  *)
(* steps the clock can separate: the checks, then subprocess.run.          *)
(***************************************************************************)
\* The shell actions handed to execute(CommandIntent('shell', action)).
CmdLs == <<"l", "s">>
CmdRm == <<"r", "m", " ", "-", "r", "f", " ", "/">>
CmdRmUpper == <<"R", "M", " ", "-", "R", "F", " ", "/">>
CmdEchoReboot == <<"e", "c", "h", "o", " ", "R", "e", "b", "o", "o", "t">>
CmdEmpty == <<>>
CmdBlank == <<" ">>
ShellCommands == {CmdLs, CmdRm, CmdRmUpper, CmdEchoReboot, CmdEmpty, CmdBlank}

\* if not allowed: return False, reason
AfterCheckAlwaysRuns(allowed) == "run"

AfterCheck(allowed) == IF allowed THEN "run" ELSE "idle"

\* _execute_shell(command) up to its call of subprocess.run: what it
\* returns, the session after is_valid(), and what it hands to the run step
_execute_shell_checked(command) ==
    IF ~allow_system_commands
    THEN [ret |-> Ret("system_commands_disabled", FALSE, 0, command,
                      "System commands are disabled"),
          sudo_session |-> sudo_session,
          xpc |-> "idle", xcommand |-> <<>>, xallowed |-> FALSE, xreason |-> ""]
    ELSE LET v == check_command(command, Sudo_is_valid(sudo_session, now))
             pc == AfterCheck(v.allowed)
         IN  [ret |-> Ret("check_command", v.allowed, 0, command, v.reason),
              sudo_session |-> Sudo_after_is_valid(sudo_session, now),
              xpc |-> pc,
              xcommand |-> IF pc = "run" THEN command ELSE <<>>,
              xallowed |-> IF pc = "run" THEN v.allowed ELSE FALSE,
              xreason |-> IF pc = "run" THEN v.reason ELSE ""]

_execute_shell_check(command) ==
    /\ xpc = "idle"
    /\ LET checked == _execute_shell_checked(command)
       IN  /\ ret' = checked.ret
           /\ sudo_session' = checked.sudo_session
           /\ xpc' = checked.xpc
           /\ xcommand' = checked.xcommand
           /\ xallowed' = checked.xallowed
           /\ xreason' = checked.xreason
    /\ UNCHANGED <<now, current_session, allow_system_commands, duration_seconds, concVars, cacheVars, restVars>>

\* A run step that asks the session again before starting the subprocess.
_execute_shell_run_rechecked ==
    /\ xpc = "run"
    /\ LET v == check_command(xcommand, Sudo_is_valid(sudo_session, now))
       IN  /\ sudo_session' = Sudo_after_is_valid(sudo_session, now)
           /\ \E rc_ok \in BOOLEAN :
                 ret' = IF v.allowed
                        THEN Ret("subprocess_run", rc_ok, now, xcommand, xreason)
                        ELSE Ret("check_command", FALSE, 0, xcommand, v.reason)
    /\ xpc' = "idle"
    /\ xcommand' = <<>>
    /\ xallowed' = FALSE
    /\ xreason' = ""
    /\ UNCHANGED <<now, current_session, allow_system_commands, duration_seconds, concVars, cacheVars, restVars>>

\* subprocess.run(command, shell=True, ...): ok is returncode == 0
_execute_shell_run ==
    /\ xpc = "run"
    /\ \E rc_ok \in BOOLEAN : ret' = Ret("subprocess_run", rc_ok, now, xcommand, xreason)
    /\ xpc' = "idle"
    /\ xcommand' = <<>>
    /\ xallowed' = FALSE
    /\ xreason' = ""
    /\ UNCHANGED <<now, current_session, sudo_session, allow_system_commands, duration_seconds, concVars, cacheVars, restVars>>

(***************************************************************************)
(* enhanced-security.py: activate_sudo_mode called by several callers at   *)
(* once.  The method takes no lock, so another caller can run between its  *)
(* test of the current session (line 152) and its assignment (line 157).   *)
(***************************************************************************)
Callers == 1..NumCallers

NoResult == [state |-> "none", start_time |-> 0, end_time |-> 0]

\* if self.current_session and self.current_session.is_valid(): return False, ...
activate_sudo_mode_test(c, a) ==
    /\ cpc[c] = "idle"
    /\ carg' = [carg EXCEPT ![c] = a]
    /\ IF current_session.exists /\ Session_is_valid(current_session, now)
       THEN /\ current_session' = Session_after_is_valid(current_session, now)
            /\ cpc' = [cpc EXCEPT ![c] = "done"]
            /\ cres' = [cres EXCEPT ![c] = [state |-> "failed", start_time |-> 0, end_time |-> 0]]
            /\ ret' = Ret("activate_sudo_mode", FALSE,
                          Session_get_remaining_time(current_session, now), <<>>,
                          "Sudo mode already active")
       ELSE /\ current_session' =
                  IF current_session.exists
                  THEN Session_after_is_valid(current_session, now)
                  ELSE current_session
            /\ cpc' = [cpc EXCEPT ![c] = "create"]
            /\ UNCHANGED cres
            /\ ret' = Ret("activate_sudo_mode_test", TRUE, 0, <<>>, "")
    /\ UNCHANGED <<now, kpc, kloc, execVars, cacheVars, restVars>>

\* self.current_session = SudoSession(duration); return True, message
activate_sudo_mode_create(c) ==
    /\ cpc[c] = "create"
    /\ current_session' = NewSession(EffectiveDuration(carg[c]), now)
    /\ cpc' = [cpc EXCEPT ![c] = "done"]
    /\ cres' = [cres EXCEPT ![c] = [state |-> "ok", start_time |-> now,
                                    end_time |-> now + EffectiveDuration(carg[c])]]
    /\ ret' = Ret("activate_sudo_mode", TRUE, EffectiveDuration(carg[c]), <<>>,
                  "Sudo mode activated")
    /\ UNCHANGED <<now, carg, kpc, kloc, execVars, cacheVars, restVars>>

(***************************************************************************)
(* ai_backend_advanced.py: CachedResponse and ResponseCache.  The cache is *)
(* the dict as a sequence of entries in insertion order.                   *)
(***************************************************************************)
\* A key that is trimmed but keeps its letter case.
NormalizeKeepsCase(query) == Strip(query)

\* query.lower().strip()
Normalize(query) == Strip(Lower(query))

\* An entry that takes the time the clock started, not the time it is made.
NewEntryAtStart(query, response, ttl, t) ==
    [key |-> Normalize(query), response |-> response, created_at |-> 0, ttl |-> ttl]

\* CachedResponse(query, response, ttl_seconds) constructed at time t
NewEntry(query, response, ttl, t) ==
    [key |-> Normalize(query), response |-> response, created_at |-> t, ttl |-> ttl]

\* A validity test that still accepts the entry at the instant its ttl ends.
Entry_is_valid_inclusive(e, t) == t <= e.created_at + e.ttl

\* CachedResponse.is_valid() at time t
Entry_is_valid(e, t) == t < e.created_at + e.ttl

\* The place of key in the dict, 0 when it is absent.
IndexOf(c, key) ==
    IF \E i \in 1..Len(c) : c[i].key = key
    THEN CHOOSE i \in 1..Len(c) : c[i].key = key
    ELSE 0

\* del self.cache[key], by place
RemoveAt(c, i) == [j \in 1..(Len(c) - 1) |-> IF j < i THEN c[j] ELSE c[j + 1]]

\* A choice of the entry to evict that takes the newest one.
NewestIndex(c) ==
    CHOOSE i \in 1..Len(c) :
        \A j \in 1..Len(c) :
            \/ c[i].created_at > c[j].created_at
            \/ (c[i].created_at = c[j].created_at /\ i <= j)

\* min(self.cache.keys(), key=lambda k: self.cache[k].created_at): the first
\* key, in the dict's order, among those of the smallest created_at
OldestIndex(c) ==
    CHOOSE i \in 1..Len(c) :
        \A j \in 1..Len(c) :
            \/ c[i].created_at < c[j].created_at
            \/ (c[i].created_at = c[j].created_at /\ i <= j)

\* An insertion that keeps the entry a present key already has.
PutKeepsOld(c, e) ==
    IF \E i \in 1..Len(c) : c[i].key = e.key THEN c ELSE Append(c, e)

\* self.cache[key] = entry: a present key keeps its place, a new one goes last
Put(c, e) ==
    IF IndexOf(c, e.key) # 0
    THEN [c EXCEPT ![IndexOf(c, e.key)] = e]
    ELSE Append(c, e)

\* An eviction step that waits until the cache holds more than max_entries.
AfterEvictionLate(c) ==
    IF Len(c) > max_entries THEN RemoveAt(c, OldestIndex(c)) ELSE c

\* The cache after the eviction step of set().
AfterEviction(c) ==
    IF Len(c) >= max_entries THEN RemoveAt(c, OldestIndex(c)) ELSE c

NoSet == [valid |-> FALSE, query |-> <<>>, response |-> "", ttl |-> 0, at |-> 0]

\* The queries, responses and ttl values the callers pass.
Queries == { <<"a">>, <<" ", "A", "\t">>, <<"b">>, <<"c">> }
Responses == {"r1", "r2"}
Ttls == {0, MaxTtl}

cache_get(query) ==
    LET key == Normalize(query)
        i == IndexOf(cache, key)
    IN  /\ IF i # 0
           THEN IF Entry_is_valid(cache[i], now)
                THEN /\ ret' = Ret("get", TRUE, 0, query, cache[i].response)
                     /\ UNCHANGED cache
                ELSE /\ cache' = RemoveAt(cache, i)
                     /\ ret' = Ret("get", FALSE, 0, query, "None")
           ELSE /\ ret' = Ret("get", FALSE, 0, query, "None")
                /\ UNCHANGED cache
        /\ UNCHANGED <<now, current_session, execVars, concVars, lastSet, max_entries, restVars>>

cache_set(query, response, ttl) ==
    /\ cache' = Put(AfterEviction(cache), NewEntry(query, response, ttl, now))
    /\ lastSet' = [valid |-> TRUE, query |-> query, response |-> response,
                   ttl |-> ttl, at |-> now]
    /\ ret' = IF Len(cache) >= max_entries
              THEN Ret("set", TRUE, ttl, cache[OldestIndex(cache)].key, "evicted")
              ELSE Ret("set", TRUE, ttl, <<>>, "")
    /\ UNCHANGED <<now, current_session, execVars, concVars, max_entries, restVars>>

cache_clear ==
    /\ cache' = <<>>
    /\ lastSet' = NoSet
    /\ ret' = Ret("clear", TRUE, 0, <<>>, "")
    /\ UNCHANGED <<now, current_session, execVars, concVars, max_entries, restVars>>

\* ResponseCache(max_entries)
ResponseCache_init(n) ==
    /\ cache' = <<>>
    /\ lastSet' = NoSet
    /\ max_entries' = n
    /\ ret' = Ret("ResponseCache_init", TRUE, n, <<>>, "")
    /\ UNCHANGED <<now, current_session, execVars, concVars, restVars>>

\* sum(1 for c in self.cache.values() if c.is_valid())
ValidEntries(c, t) == Cardinality({i \in 1..Len(c) : Entry_is_valid(c[i], t)})

\* get_stats(): what it returns has the three entries of the dict
get_stats ==
    /\ ret' = [op |-> "get_stats", ok |-> TRUE, num |-> 0, cmd |-> <<>>, msg |-> "",
               entries |-> Len(cache), max_entries |-> max_entries,
               valid_entries |-> ValidEntries(cache, now)]
    /\ UNCHANGED <<now, current_session, execVars, concVars, cacheVars, restVars>>

(***************************************************************************)
(* ai_backend_advanced.py: ResponseCache.get and ResponseCache.set called  *)
(* by several callers at once.  Neither method takes a lock, so another    *)
(* caller can run between any two of its statements.                       *)
(***************************************************************************)
\* The locals of a call: key, the arguments of set, and oldest_key.
NoLocals == [key |-> <<>>, response |-> "", ttl |-> 0, oldest_key |-> <<>>]

\* The queries and ttl values the concurrent callers pass.
SharedQueries == { <<"a">>, <<"b">>, <<"c">> }
SharedTtls == {MaxTtl}

\* The call of caller c is over.
Returns(c) ==
    /\ kpc' = [kpc EXCEPT ![c] = "idle"]
    /\ kloc' = [kloc EXCEPT ![c] = NoLocals]

\* get, line 69: if key in self.cache
cache_get_test(c, query) ==
    /\ kpc[c] = "idle"
    /\ IF IndexOf(cache, Normalize(query)) # 0
       THEN /\ kpc' = [kpc EXCEPT ![c] = "get_read"]
            /\ kloc' = [kloc EXCEPT ![c].key = Normalize(query)]
            /\ ret' = Ret("get_test", TRUE, 0, query, "")
       ELSE /\ Returns(c)
            /\ ret' = Ret("get", FALSE, 0, query, "None")
    /\ UNCHANGED <<now, current_session, execVars, cpc, carg, cres, cacheVars, restVars>>

\* get, lines 70-73: cached = self.cache[key]; if cached.is_valid(): return
\* cached.response.  The number returned with a hit is the time the payload
\* still had to live.
cache_get_read(c) ==
    LET i == IndexOf(cache, kloc[c].key)
    IN  /\ kpc[c] = "get_read"
        /\ IF i = 0
           THEN /\ Returns(c)
                /\ ret' = Ret("get", FALSE, 0, kloc[c].key, "KeyError")
           ELSE IF Entry_is_valid(cache[i], now)
           THEN /\ Returns(c)
                /\ ret' = Ret("get", TRUE, cache[i].created_at + cache[i].ttl - now,
                              kloc[c].key, cache[i].response)
           ELSE /\ kpc' = [kpc EXCEPT ![c] = "get_del"]
                /\ UNCHANGED kloc
                /\ ret' = Ret("get_read", FALSE, 0, kloc[c].key, "")
        /\ UNCHANGED <<now, current_session, execVars, cpc, carg, cres, cacheVars, restVars>>

\* get, lines 76-78: del self.cache[key]; return None
cache_get_del(c) ==
    LET i == IndexOf(cache, kloc[c].key)
    IN  /\ kpc[c] = "get_del"
        /\ Returns(c)
        /\ IF i = 0
           THEN /\ ret' = Ret("get", FALSE, 0, kloc[c].key, "KeyError")
                /\ UNCHANGED cache
           ELSE /\ ret' = Ret("get", FALSE, 0, kloc[c].key, "None")
                /\ cache' = RemoveAt(cache, i)
        /\ UNCHANGED <<now, current_session, execVars, cpc, carg, cres, lastSet, max_entries, restVars>>

\* set, line 90: if len(self.cache) >= self.max_entries
cache_set_test(c, query, response, ttl) ==
    /\ kpc[c] = "idle"
    /\ kpc' = [kpc EXCEPT ![c] = IF Len(cache) >= max_entries THEN "set_min" ELSE "set_put"]
    /\ kloc' = [kloc EXCEPT ![c] = [key |-> Normalize(query), response |-> response,
                                    ttl |-> ttl, oldest_key |-> <<>>]]
    /\ ret' = Ret("set_test", Len(cache) >= max_entries, ttl, query, "")
    /\ UNCHANGED <<now, current_session, execVars, cpc, carg, cres, cacheVars, restVars>>

\* set, lines 91-92: oldest_key = min(self.cache.keys(), key=...)
cache_set_min(c) ==
    /\ kpc[c] = "set_min"
    /\ IF cache = <<>>
       THEN /\ Returns(c)
            /\ ret' = Ret("set", FALSE, 0, kloc[c].key, "ValueError")
       ELSE /\ kpc' = [kpc EXCEPT ![c] = "set_del"]
            /\ kloc' = [kloc EXCEPT ![c].oldest_key = cache[OldestIndex(cache)].key]
            /\ ret' = Ret("set_min", TRUE, 0, cache[OldestIndex(cache)].key, "")
    /\ UNCHANGED <<now, current_session, execVars, cpc, carg, cres, cacheVars, restVars>>

\* set, line 93: del self.cache[oldest_key]
cache_set_del(c) ==
    LET i == IndexOf(cache, kloc[c].oldest_key)
    IN  /\ kpc[c] = "set_del"
        /\ IF i = 0
           THEN /\ Returns(c)
                /\ ret' = Ret("set", FALSE, 0, kloc[c].oldest_key, "KeyError")
                /\ UNCHANGED cache
           ELSE /\ kpc' = [kpc EXCEPT ![c] = "set_put"]
                /\ UNCHANGED kloc
                /\ ret' = Ret("set_del", TRUE, 0, kloc[c].oldest_key, "")
                /\ cache' = RemoveAt(cache, i)
        /\ UNCHANGED <<now, current_session, execVars, cpc, carg, cres, lastSet, max_entries, restVars>>

\* set, lines 95-96: self.cache[key] = CachedResponse(query, response, ttl)
cache_set_put(c) ==
    /\ kpc[c] = "set_put"
    /\ Returns(c)
    /\ cache' = Put(cache, [key |-> kloc[c].key, response |-> kloc[c].response,
                            created_at |-> now, ttl |-> kloc[c].ttl])
    /\ ret' = Ret("set", TRUE, kloc[c].ttl, kloc[c].key, "")
    /\ UNCHANGED <<now, current_session, execVars, cpc, carg, cres, lastSet, max_entries, restVars>>

(***************************************************************************)
(* jarvis/command_executor.py: CommandIntent and                           *)
(* CommandExecutor.parse_intent.  A regular expression is computed as      *)
(* re.search computes it: the leftmost place where it matches, and at that *)
(* place the longest run of whitespace first.                              *)
(***************************************************************************)
Quotes == {"\"", "'"}

NoMatch == [ok |-> FALSE, group |-> <<>>]
Match(group) == [ok |-> TRUE, group |-> group]

\* The number of characters from place i on that are not in stop.
RunLen(s, i, stop) ==
    SetMin({j \in i..(Len(s) + 1) : j = Len(s) + 1 \/ s[j] \in stop}) - i

\* The number of whitespace characters from place i on.
WhitespaceLen(s, i) ==
    SetMin({j \in i..(Len(s) + 1) : j = Len(s) + 1 \/ s[j] \notin Whitespace}) - i

\* (["']?)([^"']+)\1 at place p: a name closed by the quote that opens it,
\* or the characters up to the next quote
QuotedOrBare(s, p) ==
    IF p > Len(s) THEN NoMatch
    ELSE IF s[p] \in Quotes
    THEN LET n == RunLen(s, p + 1, Quotes)
         IN  IF n >= 1 /\ p + 1 + n <= Len(s) /\ s[p + 1 + n] = s[p]
             THEN Match(SubSeq(s, p + 1, p + n))
             ELSE NoMatch
    ELSE Match(SubSeq(s, p, p + RunLen(s, p, Quotes) - 1))

\* ([^\s]+) at place p
Token(s, p) ==
    IF p > Len(s) \/ s[p] \in Whitespace THEN NoMatch
    ELSE Match(SubSeq(s, p, p + RunLen(s, p, Whitespace) - 1))

\* ([^,]+) at place p
UpToComma(s, p) ==
    IF p > Len(s) \/ s[p] = "," THEN NoMatch
    ELSE Match(SubSeq(s, p, p + RunLen(s, p, {","}) - 1))

\* \s+ from place j and then Rest: \s+ is greedy and gives whitespace back
\* one character at a time while Rest does not match
SpacesThen(s, j, Rest(_, _)) ==
    LET ks == {k \in 1..WhitespaceLen(s, j) : Rest(s, j + k).ok}
    IN  IF ks = {} THEN NoMatch ELSE Rest(s, j + SetMax(ks))

\* (?:word\s+)? and then Rest, at place p: with the word first, then without
OptionalWordThen(s, p, word, Rest(_, _)) ==
    LET with == IF MatchAt(Lower(s), word, p)
                THEN SpacesThen(s, p + Len(word), Rest)
                ELSE NoMatch
    IN  IF with.ok THEN with ELSE Rest(s, p)

\* re.search(keyword\s+Rest, s, re.IGNORECASE) for the keywords of an
\* alternation, no two of which begin alike
Search(s, keywords, Rest(_, _)) ==
    LET at(i) == {k \in keywords : MatchAt(Lower(s), k, i)}
        m(i) == IF at(i) = {} THEN NoMatch
                ELSE SpacesThen(s, i + Len(CHOOSE k \in at(i) : TRUE), Rest)
        starts == {i \in 1..Len(s) : m(i).ok}
    IN  IF starts = {} THEN NoMatch ELSE m(SetMin(starts))

WRun == <<"r", "u", "n">>
WExecute == <<"e", "x", "e", "c", "u", "t", "e">>
WShell == <<"s", "h", "e", "l", "l">>
WEdit == <<"e", "d", "i", "t">>
WOpen == <<"o", "p", "e", "n">>
WFile == <<"f", "i", "l", "e">>
WDownload == <<"d", "o", "w", "n", "l", "o", "a", "d">>
WFrom == <<"f", "r", "o", "m">>
WLaunch == <<"l", "a", "u", "n", "c", "h">>
WStart == <<"s", "t", "a", "r", "t">>
WClick == <<"c", "l", "i", "c", "k">>
WOn == <<"o", "n">>
WScroll == <<"s", "c", "r", "o", "l", "l">>
WDown == <<"d", "o", "w", "n">>
WUp == <<"u", "p">>
WType == <<"t", "y", "p", "e">>
WFetch == <<"f", "e", "t", "c", "h">>

\* CommandIntent(intent_type, action, params); params is the one entry the
\* parser gives it, or the empty dict
NoParams == [key |-> "", value |-> <<>>]
Param(key, value) == [key |-> key, value |-> value]
NoIntent == [exists |-> FALSE, intent_type |-> "None", action |-> <<>>, params |-> NoParams]
CommandIntent(intent_type, action, params) ==
    [exists |-> TRUE, intent_type |-> intent_type, action |-> action, params |-> params]

\* command_lower.startswith(('run ', 'execute ', 'shell '))
ShellPrefixes == {WRun \o <<" ">>, WExecute \o <<" ">>, WShell \o <<" ">>}
StartsWithShellPrefix(command_lower) ==
    \E p \in ShellPrefixes : MatchAt(command_lower, p, 1)

\* s[n:]
Drop(s, n) == IF n >= Len(s) THEN <<>> ELSE SubSeq(s, n + 1, Len(s))

\* if command_lower.startswith(...): return CommandIntent('shell', action)
ShellTemplate(command_text) ==
    LET command_lower == Strip(Lower(command_text))
    IN  IF StartsWithShellPrefix(command_lower)
        THEN CommandIntent("shell",
                Strip(Drop(command_text, Len(Split(command_lower)[1]) + 1)), NoParams)
        ELSE NoIntent

\* The file filter of parse_intent that returns the intent whether or not
\* the expression matched.
FileTemplateUnchecked(command_text) ==
    LET command_lower == Strip(Lower(command_text))
    IN  IF (Contains(command_lower, WEdit) \/ Contains(command_lower, WOpen))
            /\ Contains(command_lower, WFile)
        THEN CommandIntent("file", WEdit, Param("filename",
                Search(command_text, {WEdit, WOpen},
                       LAMBDA s, p : OptionalWordThen(s, p, WFile, QuotedOrBare)).group))
        ELSE NoIntent

\* if 'edit' in command_lower or 'open' in command_lower: if 'file' in
\* command_lower: match = re.search(...); if match: return CommandIntent('file', ...)
FileTemplate(command_text) ==
    LET command_lower == Strip(Lower(command_text))
        match == Search(command_text, {WEdit, WOpen},
                        LAMBDA s, p : OptionalWordThen(s, p, WFile, QuotedOrBare))
    IN  IF (Contains(command_lower, WEdit) \/ Contains(command_lower, WOpen))
            /\ Contains(command_lower, WFile) /\ match.ok
        THEN CommandIntent("file", WEdit, Param("filename", match.group))
        ELSE NoIntent

DownloadTemplate(command_text) ==
    LET command_lower == Strip(Lower(command_text))
        match == Search(command_text, {WDownload},
                        LAMBDA s, p : OptionalWordThen(s, p, WFrom, Token))
    IN  IF Contains(command_lower, WDownload) /\ match.ok
        THEN CommandIntent("download", WFetch, Param("url", match.group))
        ELSE NoIntent

AppTemplate(command_text) ==
    LET command_lower == Strip(Lower(command_text))
        match == Search(command_text, {WOpen, WLaunch, WStart}, QuotedOrBare)
    IN  IF (Contains(command_lower, WOpen) \/ Contains(command_lower, WLaunch)
                \/ Contains(command_lower, WStart)) /\ match.ok
        THEN CommandIntent("app", WOpen, Param("app", match.group))
        ELSE NoIntent

ClickTemplate(command_text) ==
    LET command_lower == Strip(Lower(command_text))
        match == Search(command_text, {WClick},
                        LAMBDA s, p : OptionalWordThen(s, p, WOn, UpToComma))
    IN  IF Contains(command_lower, WClick) /\ match.ok
        THEN CommandIntent("gui", WClick, Param("target", Strip(match.group)))
        ELSE NoIntent

ScrollTemplate(command_text) ==
    LET command_lower == Strip(Lower(command_text))
        direction == IF Contains(command_lower, WDown) THEN WDown
                     ELSE IF Contains(command_lower, WUp) THEN WUp ELSE WDown
    IN  IF Contains(command_lower, WScroll)
        THEN CommandIntent("gui", WScroll, Param("direction", direction))
        ELSE NoIntent

TypeTemplate(command_text) ==
    LET command_lower == Strip(Lower(command_text))
        match == Search(command_text, {WType}, QuotedOrBare)
    IN  IF Contains(command_lower, WType) /\ match.ok
        THEN CommandIntent("gui", WType, Param("text", match.group))
        ELSE NoIntent

\* The filters of parse_intent in the order of its if statements, each with
\* the intent it returns or NoIntent when it returns nothing.
Templates(command_text) ==
    << ShellTemplate(command_text), FileTemplate(command_text),
       DownloadTemplate(command_text), AppTemplate(command_text),
       ClickTemplate(command_text), ScrollTemplate(command_text),
       TypeTemplate(command_text) >>

\* A choice that takes the last filter that returns an intent.
LastIntent(candidates) ==
    IF \A k \in 1..Len(candidates) : ~candidates[k].exists THEN NoIntent
    ELSE candidates[SetMax({k \in 1..Len(candidates) : candidates[k].exists})]

\* The first return statement reached: the intent of the first filter that
\* returns one, None when none does.
FirstIntent(candidates) ==
    IF \A k \in 1..Len(candidates) : ~candidates[k].exists THEN NoIntent
    ELSE candidates[SetMin({k \in 1..Len(candidates) : candidates[k].exists})]

\* What parse_intent(command_text) returns.
parse_intent_result(command_text) ==
    IF command_text = <<>> THEN NoIntent
    ELSE FirstIntent(Templates(command_text))

TRunLs == <<"r", "u", "n", " ", "l", "s">>
TRunDownloadOpen == <<"R", "u", "n", " ", "d", "o", "w", "n", "l", "o", "a", "d", " ", "o", "p", "e", "n", " ", "x">>
TExecuteRm == <<"e", "x", "e", "c", "u", "t", "e", " ", "r", "m", " ", "-", "r", "f", " ", "/">>
TOpenFileNotes == <<"o", "p", "e", "n", " ", "f", "i", "l", "e", " ", "n", "o", "t", "e", "s", ".", "t", "x", "t">>
TFileEditedDownload == <<"f", "i", "l", "e", " ", "e", "d", "i", "t", "e", "d", " ", "d", "o", "w", "n", "l", "o", "a", "d", " ", "u">>
TDownloadFrom == <<"d", "o", "w", "n", "l", "o", "a", "d", " ", "f", "r", "o", "m", " ", "h", "t", "t", "p", ":", "/", "/", "x", ".", "y", "/", "f">>
TDownloadOpen == <<"d", "o", "w", "n", "l", "o", "a", "d", " ", "o", "p", "e", "n", " ", "v", "l", "c">>
TOpenVlc == <<"o", "p", "e", "n", " ", "v", "l", "c">>
TOpenReboot == <<"o", "p", "e", "n", " ", "r", "e", "b", "o", "o", "t">>
TClickOn == <<"c", "l", "i", "c", "k", " ", "o", "n", " ", "o", "k", ",", " ", "n", "o", "w">>
TScrollUp == <<"s", "c", "r", "o", "l", "l", " ", "u", "p">>
TTypeQuoted == <<"t", "y", "p", "e", " ", "'", "h", "i", " ", "t", "h", "e", "r", "e", "'">>
TTyped == <<"t", "y", "p", "e", "d">>
THello == <<"h", "e", "l", "l", "o">>
TWhatIs == <<"w", "h", "a", "t", " ", "i", "s", " ", "r", "m", " ", "-", "r", "f">>
TDownloadReboot == <<"d", "o", "w", "n", "l", "o", "a", "d", " ", "h", "t", "t", "p", ":", "/", "/", "x", ".", "y", "/", "r", "e", "b", "o", "o", "t">>
TTypeRm == <<"t", "y", "p", "e", " ", "'", "r", "m", " ", "-", "r", "f", " ", "/", "'">>
TEditFileMkfs == <<"e", "d", "i", "t", " ", "f", "i", "l", "e", " ", "m", "k", "f", "s", ".", "c", "f", "g">>
TClickPoweroff == <<"c", "l", "i", "c", "k", " ", "p", "o", "w", "e", "r", "o", "f", "f">>

\* The other texts parse_intent is given: every shape of every template,
\* every ordered pair of templates, and upper case, unclosed quotes, missing
\* captures and padding.
OtherTexts == {
    <<"s", "h", "e", "l", "l", " ", "e", "c", "h", "o", " ", "h", "i">>,
    <<" ", " ", "r", "u", "n", " ", "l", "s">>,
    <<"r", "u", "n", " ">>,
    <<"e", "d", "i", "t", " ", "f", "i", "l", "e", " ", "'", "a", " ", "b", "'">>,
    <<"o", "p", "e", "n", " ", "f", "i", "l", "e">>,
    <<"E", "d", "i", "t", " ", "t", "h", "e", " ", "f", "i", "l", "e">>,
    <<"p", "r", "o", "f", "i", "l", "e", " ", "e", "d", "i", "t", "o", "r">>,
    <<"d", "o", "w", "n", "l", "o", "a", "d">>,
    <<"d", "o", "w", "n", "l", "o", "a", "d", " ", "r", "m", " ", "-", "r", "f">>,
    <<"l", "a", "u", "n", "c", "h", " ", "\"", "m", "y", " ", "a", "p", "p", "\"">>,
    <<"s", "t", "a", "r", "t">>,
    <<"o", "p", "e", "n", " ", "'", "v", "l", "c">>,
    <<"o", "p", "e", "n", " ", "'", "x", " ", "c", "l", "i", "c", "k", " ", "o", "k">>,
    <<"c", "l", "i", "c", "k", " ", " ">>,
    <<"s", "c", "r", "o", "l", "l">>,
    <<"s", "c", "r", "o", "l", "l", " ", "d", "o", "w", "n", " ", "u", "p">>,
    <<"T", "Y", "P", "E", " ", "h", "e", "l", "l", "o">>,
    <<"p", "l", "e", "a", "s", "e", " ", "c", "l", "i", "c", "k", " ", "s", "t", "a", "r", "t">>,
    <<"s", "t", "a", "r", "t", " ", "t", "y", "p", "i", "n", "g">>,
    <<>>,
    <<"o", "p", "e", "n", " ", " ", "'", "x">>,
    <<"e", "d", "i", "t", " ", "f", "i", "l", "e", " ", "'", "x">>,
    <<"d", "o", "w", "n", "l", "o", "a", "d", " ", "f", "r", "o", "m">>,
    <<"c", "l", "i", "c", "k", " ", ",", "x", " ", "t", "y", "p", "e", " ", "y">>,
    <<"r", "u", "n", " ", "l", "s", " ", "e", "d", "i", "t", " ", "f", "i", "l", "e", " ", "a", ".", "t", "x", "t">>,
    <<"r", "u", "n", " ", "l", "s", " ", "d", "o", "w", "n", "l", "o", "a", "d", " ", "u">>,
    <<"r", "u", "n", " ", "l", "s", " ", "l", "a", "u", "n", "c", "h", " ", "v", "l", "c">>,
    <<"r", "u", "n", " ", "l", "s", " ", "c", "l", "i", "c", "k", " ", "o", "k">>,
    <<"r", "u", "n", " ", "l", "s", " ", "s", "c", "r", "o", "l", "l", " ", "u", "p">>,
    <<"r", "u", "n", " ", "l", "s", " ", "t", "y", "p", "e", " ", "h", "i">>,
    <<"e", "d", "i", "t", " ", "f", "i", "l", "e", " ", "a", ".", "t", "x", "t", " ", "r", "u", "n", " ", "l", "s">>,
    <<"e", "d", "i", "t", " ", "f", "i", "l", "e", " ", "a", ".", "t", "x", "t", " ", "d", "o", "w", "n", "l", "o", "a", "d", " ", "u">>,
    <<"e", "d", "i", "t", " ", "f", "i", "l", "e", " ", "a", ".", "t", "x", "t", " ", "l", "a", "u", "n", "c", "h", " ", "v", "l", "c">>,
    <<"e", "d", "i", "t", " ", "f", "i", "l", "e", " ", "a", ".", "t", "x", "t", " ", "c", "l", "i", "c", "k", " ", "o", "k">>,
    <<"e", "d", "i", "t", " ", "f", "i", "l", "e", " ", "a", ".", "t", "x", "t", " ", "s", "c", "r", "o", "l", "l", " ", "u", "p">>,
    <<"e", "d", "i", "t", " ", "f", "i", "l", "e", " ", "a", ".", "t", "x", "t", " ", "t", "y", "p", "e", " ", "h", "i">>,
    <<"d", "o", "w", "n", "l", "o", "a", "d", " ", "u", " ", "r", "u", "n", " ", "l", "s">>,
    <<"d", "o", "w", "n", "l", "o", "a", "d", " ", "u", " ", "e", "d", "i", "t", " ", "f", "i", "l", "e", " ", "a", ".", "t", "x", "t">>,
    <<"d", "o", "w", "n", "l", "o", "a", "d", " ", "u", " ", "l", "a", "u", "n", "c", "h", " ", "v", "l", "c">>,
    <<"d", "o", "w", "n", "l", "o", "a", "d", " ", "u", " ", "c", "l", "i", "c", "k", " ", "o", "k">>,
    <<"d", "o", "w", "n", "l", "o", "a", "d", " ", "u", " ", "s", "c", "r", "o", "l", "l", " ", "u", "p">>,
    <<"d", "o", "w", "n", "l", "o", "a", "d", " ", "u", " ", "t", "y", "p", "e", " ", "h", "i">>,
    <<"l", "a", "u", "n", "c", "h", " ", "v", "l", "c", " ", "r", "u", "n", " ", "l", "s">>,
    <<"l", "a", "u", "n", "c", "h", " ", "v", "l", "c", " ", "e", "d", "i", "t", " ", "f", "i", "l", "e", " ", "a", ".", "t", "x", "t">>,
    <<"l", "a", "u", "n", "c", "h", " ", "v", "l", "c", " ", "d", "o", "w", "n", "l", "o", "a", "d", " ", "u">>,
    <<"l", "a", "u", "n", "c", "h", " ", "v", "l", "c", " ", "c", "l", "i", "c", "k", " ", "o", "k">>,
    <<"l", "a", "u", "n", "c", "h", " ", "v", "l", "c", " ", "s", "c", "r", "o", "l", "l", " ", "u", "p">>,
    <<"l", "a", "u", "n", "c", "h", " ", "v", "l", "c", " ", "t", "y", "p", "e", " ", "h", "i">>,
    <<"c", "l", "i", "c", "k", " ", "o", "k", " ", "r", "u", "n", " ", "l", "s">>,
    <<"c", "l", "i", "c", "k", " ", "o", "k", " ", "e", "d", "i", "t", " ", "f", "i", "l", "e", " ", "a", ".", "t", "x", "t">>,
    <<"c", "l", "i", "c", "k", " ", "o", "k", " ", "d", "o", "w", "n", "l", "o", "a", "d", " ", "u">>,
    <<"c", "l", "i", "c", "k", " ", "o", "k", " ", "l", "a", "u", "n", "c", "h", " ", "v", "l", "c">>,
    <<"c", "l", "i", "c", "k", " ", "o", "k", " ", "s", "c", "r", "o", "l", "l", " ", "u", "p">>,
    <<"c", "l", "i", "c", "k", " ", "o", "k", " ", "t", "y", "p", "e", " ", "h", "i">>,
    <<"s", "c", "r", "o", "l", "l", " ", "u", "p", " ", "r", "u", "n", " ", "l", "s">>,
    <<"s", "c", "r", "o", "l", "l", " ", "u", "p", " ", "e", "d", "i", "t", " ", "f", "i", "l", "e", " ", "a", ".", "t", "x", "t">>,
    <<"s", "c", "r", "o", "l", "l", " ", "u", "p", " ", "d", "o", "w", "n", "l", "o", "a", "d", " ", "u">>,
    <<"s", "c", "r", "o", "l", "l", " ", "u", "p", " ", "l", "a", "u", "n", "c", "h", " ", "v", "l", "c">>,
    <<"s", "c", "r", "o", "l", "l", " ", "u", "p", " ", "c", "l", "i", "c", "k", " ", "o", "k">>,
    <<"s", "c", "r", "o", "l", "l", " ", "u", "p", " ", "t", "y", "p", "e", " ", "h", "i">>,
    <<"t", "y", "p", "e", " ", "h", "i", " ", "r", "u", "n", " ", "l", "s">>,
    <<"t", "y", "p", "e", " ", "h", "i", " ", "e", "d", "i", "t", " ", "f", "i", "l", "e", " ", "a", ".", "t", "x", "t">>,
    <<"t", "y", "p", "e", " ", "h", "i", " ", "d", "o", "w", "n", "l", "o", "a", "d", " ", "u">>,
    <<"t", "y", "p", "e", " ", "h", "i", " ", "l", "a", "u", "n", "c", "h", " ", "v", "l", "c">>,
    <<"t", "y", "p", "e", " ", "h", "i", " ", "c", "l", "i", "c", "k", " ", "o", "k">>,
    <<"t", "y", "p", "e", " ", "h", "i", " ", "s", "c", "r", "o", "l", "l", " ", "u", "p">>,
    <<"R", "U", "N", " ", "L", "S">>,
    <<" ", "r", "u", "n", " ", "l", "s">>,
    <<"p", "l", "e", "a", "s", "e", " ", "r", "u", "n", " ", "l", "s", " ", "n", "o", "w">>,
    <<"E", "D", "I", "T", " ", "F", "I", "L", "E", " ", "A", ".", "T", "X", "T">>,
    <<" ", "e", "d", "i", "t", " ", "f", "i", "l", "e", " ", "a", ".", "t", "x", "t">>,
    <<"p", "l", "e", "a", "s", "e", " ", "e", "d", "i", "t", " ", "f", "i", "l", "e", " ", "a", ".", "t", "x", "t", " ", "n", "o", "w">>,
    <<"D", "O", "W", "N", "L", "O", "A", "D", " ", "U">>,
    <<" ", "d", "o", "w", "n", "l", "o", "a", "d", " ", "u">>,
    <<"p", "l", "e", "a", "s", "e", " ", "d", "o", "w", "n", "l", "o", "a", "d", " ", "u", " ", "n", "o", "w">>,
    <<"L", "A", "U", "N", "C", "H", " ", "V", "L", "C">>,
    <<" ", "l", "a", "u", "n", "c", "h", " ", "v", "l", "c">>,
    <<"p", "l", "e", "a", "s", "e", " ", "l", "a", "u", "n", "c", "h", " ", "v", "l", "c", " ", "n", "o", "w">>,
    <<"C", "L", "I", "C", "K", " ", "O", "K">>,
    <<" ", "c", "l", "i", "c", "k", " ", "o", "k">>,
    <<"p", "l", "e", "a", "s", "e", " ", "c", "l", "i", "c", "k", " ", "o", "k", " ", "n", "o", "w">>,
    <<"S", "C", "R", "O", "L", "L", " ", "U", "P">>,
    <<" ", "s", "c", "r", "o", "l", "l", " ", "u", "p">>,
    <<"p", "l", "e", "a", "s", "e", " ", "s", "c", "r", "o", "l", "l", " ", "u", "p", " ", "n", "o", "w">>,
    <<"T", "Y", "P", "E", " ", "H", "I">>,
    <<" ", "t", "y", "p", "e", " ", "h", "i">>,
    <<"p", "l", "e", "a", "s", "e", " ", "t", "y", "p", "e", " ", "h", "i", " ", "n", "o", "w">> }

\* The texts parse_intent is given.
CommandTexts == {
    TRunLs, TRunDownloadOpen, TExecuteRm, TOpenFileNotes,
    TFileEditedDownload, TDownloadFrom, TDownloadOpen, TOpenVlc, TOpenReboot,
    TClickOn, TScrollUp, TTypeQuoted, TTyped, THello, TWhatIs,
    TDownloadReboot, TTypeRm, TEditFileMkfs, TClickPoweroff } \cup OtherTexts

\* parse_intent_result, computed once for each text.
ParsedIntent == [t \in CommandTexts |-> parse_intent_result(t)]

(***************************************************************************)
(* smart-router.py: TaskType and SmartRouter.                              *)
(***************************************************************************)
\* TaskType, in the order of its declaration
TaskTypes == <<"research", "code", "math", "creative", "factual", "system", "general">>

\* self.task_patterns, in the dict's order.  A pattern is the set of its
\* alternatives; an alternative is its literal segments, which .* separates,
\* each optional character written out both ways; digits marks the
\* alternative that ends in \d+\s*[+-*/].
task_patterns == <<
    [task |-> "research", patterns |-> <<
        \* research|find|search|look up|investigate|explore|discover|learn about
        {[segs |-> <<<<"r", "e", "s", "e", "a", "r", "c", "h">>>>, digits |-> FALSE],
         [segs |-> <<<<"f", "i", "n", "d">>>>, digits |-> FALSE],
         [segs |-> <<<<"s", "e", "a", "r", "c", "h">>>>, digits |-> FALSE],
         [segs |-> <<<<"l", "o", "o", "k", " ", "u", "p">>>>, digits |-> FALSE],
         [segs |-> <<<<"i", "n", "v", "e", "s", "t", "i", "g", "a", "t", "e">>>>, digits |-> FALSE],
         [segs |-> <<<<"e", "x", "p", "l", "o", "r", "e">>>>, digits |-> FALSE],
         [segs |-> <<<<"d", "i", "s", "c", "o", "v", "e", "r">>>>, digits |-> FALSE],
         [segs |-> <<<<"l", "e", "a", "r", "n", " ", "a", "b", "o", "u", "t">>>>, digits |-> FALSE]},
        \* what\'?s? the latest|recent|current|up to date
        {[segs |-> <<<<"w", "h", "a", "t", " ", "t", "h", "e", " ", "l", "a", "t", "e", "s", "t">>>>, digits |-> FALSE],
         [segs |-> <<<<"w", "h", "a", "t", "'", " ", "t", "h", "e", " ", "l", "a", "t", "e", "s", "t">>>>, digits |-> FALSE],
         [segs |-> <<<<"w", "h", "a", "t", "'", "s", " ", "t", "h", "e", " ", "l", "a", "t", "e", "s", "t">>>>, digits |-> FALSE],
         [segs |-> <<<<"w", "h", "a", "t", "s", " ", "t", "h", "e", " ", "l", "a", "t", "e", "s", "t">>>>, digits |-> FALSE],
         [segs |-> <<<<"r", "e", "c", "e", "n", "t">>>>, digits |-> FALSE],
         [segs |-> <<<<"c", "u", "r", "r", "e", "n", "t">>>>, digits |-> FALSE],
         [segs |-> <<<<"u", "p", " ", "t", "o", " ", "d", "a", "t", "e">>>>, digits |-> FALSE]},
        \* tell me about|information about|facts about
        {[segs |-> <<<<"t", "e", "l", "l", " ", "m", "e", " ", "a", "b", "o", "u", "t">>>>, digits |-> FALSE],
         [segs |-> <<<<"i", "n", "f", "o", "r", "m", "a", "t", "i", "o", "n", " ", "a", "b", "o", "u", "t">>>>, digits |-> FALSE],
         [segs |-> <<<<"f", "a", "c", "t", "s", " ", "a", "b", "o", "u", "t">>>>, digits |-> FALSE]} >>],
    [task |-> "code", patterns |-> <<
        \* code|write|implement|function|class|script|program|snippet
        {[segs |-> <<<<"c", "o", "d", "e">>>>, digits |-> FALSE],
         [segs |-> <<<<"w", "r", "i", "t", "e">>>>, digits |-> FALSE],
         [segs |-> <<<<"i", "m", "p", "l", "e", "m", "e", "n", "t">>>>, digits |-> FALSE],
         [segs |-> <<<<"f", "u", "n", "c", "t", "i", "o", "n">>>>, digits |-> FALSE],
         [segs |-> <<<<"c", "l", "a", "s", "s">>>>, digits |-> FALSE],
         [segs |-> <<<<"s", "c", "r", "i", "p", "t">>>>, digits |-> FALSE],
         [segs |-> <<<<"p", "r", "o", "g", "r", "a", "m">>>>, digits |-> FALSE],
         [segs |-> <<<<"s", "n", "i", "p", "p", "e", "t">>>>, digits |-> FALSE]},
        \* how to.*python|javascript|java|c\+\+|rust|go
        {[segs |-> <<<<"h", "o", "w", " ", "t", "o">>, <<"p", "y", "t", "h", "o", "n">>>>, digits |-> FALSE],
         [segs |-> <<<<"j", "a", "v", "a", "s", "c", "r", "i", "p", "t">>>>, digits |-> FALSE],
         [segs |-> <<<<"j", "a", "v", "a">>>>, digits |-> FALSE],
         [segs |-> <<<<"c", "+", "+">>>>, digits |-> FALSE],
         [segs |-> <<<<"r", "u", "s", "t">>>>, digits |-> FALSE],
         [segs |-> <<<<"g", "o">>>>, digits |-> FALSE]},
        \* solve.*problem|algorithm|data structure
        {[segs |-> <<<<"s", "o", "l", "v", "e">>, <<"p", "r", "o", "b", "l", "e", "m">>>>, digits |-> FALSE],
         [segs |-> <<<<"a", "l", "g", "o", "r", "i", "t", "h", "m">>>>, digits |-> FALSE],
         [segs |-> <<<<"d", "a", "t", "a", " ", "s", "t", "r", "u", "c", "t", "u", "r", "e">>>>, digits |-> FALSE]} >>],
    [task |-> "math", patterns |-> <<
        \* calculate|solve|equation|integral|derivative|matrix|algebra|geometry
        {[segs |-> <<<<"c", "a", "l", "c", "u", "l", "a", "t", "e">>>>, digits |-> FALSE],
         [segs |-> <<<<"s", "o", "l", "v", "e">>>>, digits |-> FALSE],
         [segs |-> <<<<"e", "q", "u", "a", "t", "i", "o", "n">>>>, digits |-> FALSE],
         [segs |-> <<<<"i", "n", "t", "e", "g", "r", "a", "l">>>>, digits |-> FALSE],
         [segs |-> <<<<"d", "e", "r", "i", "v", "a", "t", "i", "v", "e">>>>, digits |-> FALSE],
         [segs |-> <<<<"m", "a", "t", "r", "i", "x">>>>, digits |-> FALSE],
         [segs |-> <<<<"a", "l", "g", "e", "b", "r", "a">>>>, digits |-> FALSE],
         [segs |-> <<<<"g", "e", "o", "m", "e", "t", "r", "y">>>>, digits |-> FALSE]},
        \* math|formula|proof|theorem|logic|reasoning
        {[segs |-> <<<<"m", "a", "t", "h">>>>, digits |-> FALSE],
         [segs |-> <<<<"f", "o", "r", "m", "u", "l", "a">>>>, digits |-> FALSE],
         [segs |-> <<<<"p", "r", "o", "o", "f">>>>, digits |-> FALSE],
         [segs |-> <<<<"t", "h", "e", "o", "r", "e", "m">>>>, digits |-> FALSE],
         [segs |-> <<<<"l", "o", "g", "i", "c">>>>, digits |-> FALSE],
         [segs |-> <<<<"r", "e", "a", "s", "o", "n", "i", "n", "g">>>>, digits |-> FALSE]},
        \* what\'?s? ?\d+\s*[\+\-\*/]|calculus|linear algebra
        {[segs |-> <<<<"w", "h", "a", "t">>>>, digits |-> TRUE],
         [segs |-> <<<<"w", "h", "a", "t", " ">>>>, digits |-> TRUE],
         [segs |-> <<<<"w", "h", "a", "t", "'">>>>, digits |-> TRUE],
         [segs |-> <<<<"w", "h", "a", "t", "'", " ">>>>, digits |-> TRUE],
         [segs |-> <<<<"w", "h", "a", "t", "'", "s">>>>, digits |-> TRUE],
         [segs |-> <<<<"w", "h", "a", "t", "'", "s", " ">>>>, digits |-> TRUE],
         [segs |-> <<<<"w", "h", "a", "t", "s">>>>, digits |-> TRUE],
         [segs |-> <<<<"w", "h", "a", "t", "s", " ">>>>, digits |-> TRUE],
         [segs |-> <<<<"c", "a", "l", "c", "u", "l", "u", "s">>>>, digits |-> FALSE],
         [segs |-> <<<<"l", "i", "n", "e", "a", "r", " ", "a", "l", "g", "e", "b", "r", "a">>>>, digits |-> FALSE]} >>],
    [task |-> "creative", patterns |-> <<
        \* write|story|poem|song|creative|fiction|imagine|invent
        {[segs |-> <<<<"w", "r", "i", "t", "e">>>>, digits |-> FALSE],
         [segs |-> <<<<"s", "t", "o", "r", "y">>>>, digits |-> FALSE],
         [segs |-> <<<<"p", "o", "e", "m">>>>, digits |-> FALSE],
         [segs |-> <<<<"s", "o", "n", "g">>>>, digits |-> FALSE],
         [segs |-> <<<<"c", "r", "e", "a", "t", "i", "v", "e">>>>, digits |-> FALSE],
         [segs |-> <<<<"f", "i", "c", "t", "i", "o", "n">>>>, digits |-> FALSE],
         [segs |-> <<<<"i", "m", "a", "g", "i", "n", "e">>>>, digits |-> FALSE],
         [segs |-> <<<<"i", "n", "v", "e", "n", "t">>>>, digits |-> FALSE]},
        \* description|narrative|dialogue|script|play
        {[segs |-> <<<<"d", "e", "s", "c", "r", "i", "p", "t", "i", "o", "n">>>>, digits |-> FALSE],
         [segs |-> <<<<"n", "a", "r", "r", "a", "t", "i", "v", "e">>>>, digits |-> FALSE],
         [segs |-> <<<<"d", "i", "a", "l", "o", "g", "u", "e">>>>, digits |-> FALSE],
         [segs |-> <<<<"s", "c", "r", "i", "p", "t">>>>, digits |-> FALSE],
         [segs |-> <<<<"p", "l", "a", "y">>>>, digits |-> FALSE]},
        \* make.*funny|joke|pun|humorous
        {[segs |-> <<<<"m", "a", "k", "e">>, <<"f", "u", "n", "n", "y">>>>, digits |-> FALSE],
         [segs |-> <<<<"j", "o", "k", "e">>>>, digits |-> FALSE],
         [segs |-> <<<<"p", "u", "n">>>>, digits |-> FALSE],
         [segs |-> <<<<"h", "u", "m", "o", "r", "o", "u", "s">>>>, digits |-> FALSE]} >>],
    [task |-> "factual", patterns |-> <<
        \* fact|true|history|biography|definition|who|what is|explain
        {[segs |-> <<<<"f", "a", "c", "t">>>>, digits |-> FALSE],
         [segs |-> <<<<"t", "r", "u", "e">>>>, digits |-> FALSE],
         [segs |-> <<<<"h", "i", "s", "t", "o", "r", "y">>>>, digits |-> FALSE],
         [segs |-> <<<<"b", "i", "o", "g", "r", "a", "p", "h", "y">>>>, digits |-> FALSE],
         [segs |-> <<<<"d", "e", "f", "i", "n", "i", "t", "i", "o", "n">>>>, digits |-> FALSE],
         [segs |-> <<<<"w", "h", "o">>>>, digits |-> FALSE],
         [segs |-> <<<<"w", "h", "a", "t", " ", "i", "s">>>>, digits |-> FALSE],
         [segs |-> <<<<"e", "x", "p", "l", "a", "i", "n">>>>, digits |-> FALSE]},
        \* when|where|how many|population|capital|president
        {[segs |-> <<<<"w", "h", "e", "n">>>>, digits |-> FALSE],
         [segs |-> <<<<"w", "h", "e", "r", "e">>>>, digits |-> FALSE],
         [segs |-> <<<<"h", "o", "w", " ", "m", "a", "n", "y">>>>, digits |-> FALSE],
         [segs |-> <<<<"p", "o", "p", "u", "l", "a", "t", "i", "o", "n">>>>, digits |-> FALSE],
         [segs |-> <<<<"c", "a", "p", "i", "t", "a", "l">>>>, digits |-> FALSE],
         [segs |-> <<<<"p", "r", "e", "s", "i", "d", "e", "n", "t">>>>, digits |-> FALSE]},
        \* definition of|meaning of|do you know
        {[segs |-> <<<<"d", "e", "f", "i", "n", "i", "t", "i", "o", "n", " ", "o", "f">>>>, digits |-> FALSE],
         [segs |-> <<<<"m", "e", "a", "n", "i", "n", "g", " ", "o", "f">>>>, digits |-> FALSE],
         [segs |-> <<<<"d", "o", " ", "y", "o", "u", " ", "k", "n", "o", "w">>>>, digits |-> FALSE]} >>],
    [task |-> "system", patterns |-> <<
        \* system|command|shell|terminal|execute|run|install|configure
        {[segs |-> <<<<"s", "y", "s", "t", "e", "m">>>>, digits |-> FALSE],
         [segs |-> <<<<"c", "o", "m", "m", "a", "n", "d">>>>, digits |-> FALSE],
         [segs |-> <<<<"s", "h", "e", "l", "l">>>>, digits |-> FALSE],
         [segs |-> <<<<"t", "e", "r", "m", "i", "n", "a", "l">>>>, digits |-> FALSE],
         [segs |-> <<<<"e", "x", "e", "c", "u", "t", "e">>>>, digits |-> FALSE],
         [segs |-> <<<<"r", "u", "n">>>>, digits |-> FALSE],
         [segs |-> <<<<"i", "n", "s", "t", "a", "l", "l">>>>, digits |-> FALSE],
         [segs |-> <<<<"c", "o", "n", "f", "i", "g", "u", "r", "e">>>>, digits |-> FALSE]},
        \* sudo|root|permission|access|security|firewall
        {[segs |-> <<<<"s", "u", "d", "o">>>>, digits |-> FALSE],
         [segs |-> <<<<"r", "o", "o", "t">>>>, digits |-> FALSE],
         [segs |-> <<<<"p", "e", "r", "m", "i", "s", "s", "i", "o", "n">>>>, digits |-> FALSE],
         [segs |-> <<<<"a", "c", "c", "e", "s", "s">>>>, digits |-> FALSE],
         [segs |-> <<<<"s", "e", "c", "u", "r", "i", "t", "y">>>>, digits |-> FALSE],
         [segs |-> <<<<"f", "i", "r", "e", "w", "a", "l", "l">>>>, digits |-> FALSE]},
        \* linux|ubuntu|debian|fedora|arch
        {[segs |-> <<<<"l", "i", "n", "u", "x">>>>, digits |-> FALSE],
         [segs |-> <<<<"u", "b", "u", "n", "t", "u">>>>, digits |-> FALSE],
         [segs |-> <<<<"d", "e", "b", "i", "a", "n">>>>, digits |-> FALSE],
         [segs |-> <<<<"f", "e", "d", "o", "r", "a">>>>, digits |-> FALSE],
         [segs |-> <<<<"a", "r", "c", "h">>>>, digits |-> FALSE]} >>] >>

\* The segments after the first: .* runs from place from over characters that
\* are not a newline, to where the next segment stands.
RECURSIVE RestMatch(_, _, _)
RestMatch(s, segs, from) ==
    \/ segs = <<>>
    \/ \E j \in from..(Len(s) + 1) :
          /\ \A k \in from..(j - 1) : s[k] # "\n"
          /\ MatchAt(s, segs[1], j)
          /\ RestMatch(s, Tail(segs), j + Len(segs[1]))

\* \d+\s*[+-*/] stands in s at place p.
DigitsThenOperator(s, p) ==
    \E d \in 1..Len(s), q \in 1..Len(s) :
        /\ p + d <= q
        /\ \A k \in p..(p + d - 1) : IsDigit(s[k])
        /\ \A k \in (p + d)..(q - 1) : s[k] \in Whitespace
        /\ s[q] \in {"+", "-", "*", "/"}

AltMatches(s, alt) ==
    \E i \in 1..(Len(s) + 1) :
        /\ MatchAt(s, alt.segs[1], i)
        /\ IF alt.digits
           THEN DigitsThenOperator(s, i + Len(alt.segs[1]))
           ELSE RestMatch(s, Tail(alt.segs), i + Len(alt.segs[1]))

\* re.search(pattern, query_lower)
re_search(pattern, s) == \E alt \in pattern : AltMatches(s, alt)

\* The score detect_task_type gives the k-th task type.
Score(query_lower, k) ==
    Cardinality({p \in 1..Len(task_patterns[k].patterns) :
                    re_search(task_patterns[k].patterns[p], query_lower)})

\* A maximum that keeps the last of the keys of the highest score.
RECURSIVE MaxKeyLast(_, _, _)
MaxKeyLast(scores, k, best) ==
    IF k > Len(scores) THEN best
    ELSE MaxKeyLast(scores, k + 1, IF scores[k] >= scores[best] THEN k ELSE best)

\* max(scores, key=scores.get): the keys in the dict's order, a later key
\* replacing the best so far only when its score is greater
RECURSIVE MaxKey(_, _, _)
MaxKey(scores, k, best) ==
    IF k > Len(scores) THEN best
    ELSE MaxKey(scores, k + 1, IF scores[k] > scores[best] THEN k ELSE best)

\* What detect_task_type(query) returns.
detect_task_type_result(query) ==
    LET query_lower == Lower(query)
        scores == [k \in 1..Len(task_patterns) |-> Score(query_lower, k)]
    IN  IF \E k \in 1..Len(scores) : scores[k] > 0
        THEN task_patterns[MaxKey(scores, 2, 1)].task
        ELSE "general"

\* The queries the callers ask.
QWritePython == <<"w", "r", "i", "t", "e", " ", "a", " ", "p", "y", "t", "h", "o", "n", " ", "f", "u", "n", "c", "t", "i", "o", "n">>
QCapital == <<"w", "h", "a", "t", " ", "i", "s", " ", "t", "h", "e", " ", "c", "a", "p", "i", "t", "a", "l", " ", "o", "f", " ", "F", "r", "a", "n", "c", "e">>
QHello == <<"h", "e", "l", "l", "o">>
RouterQueries == {
    QWritePython, QCapital, QHello,
    <<"R", "e", "s", "e", "a", "r", "c", "h", " ", "b", "l", "o", "c", "k", "c", "h", "a", "i", "n", " ", "t", "e", "c", "h", "n", "o", "l", "o", "g", "y">>,
    <<"w", "h", "a", "t", "'", "s", " ", "2", " ", "+", " ", "2">>,
    <<"w", "h", "a", "t", "s", " ", "1", "2", "*", "3">>,
    <<"s", "o", "l", "v", "e", " ", "t", "h", "i", "s", " ", "a", "l", "g", "o", "r", "i", "t", "h", "m", " ", "p", "r", "o", "b", "l", "e", "m">>,
    <<"h", "o", "w", " ", "t", "o", " ", "s", "o", "r", "t", " ", "i", "n", " ", "p", "y", "t", "h", "o", "n">>,
    <<"H", "E", "L", "L", "O", " ", "g", "o">>,
    <<>>,
    <<"h", "o", "w", " ", "t", "o", " ", "s", "o", "r", "t", "\n", "i", "n", " ", "p", "y", "t", "h", "o", "n">> }

\* The texts parse_intent finds no intent in, which the assistant sends to
\* the backend.
UnparsedTexts == {t \in CommandTexts : ~ParsedIntent[t].exists}

\* detect_task_type_result over the queries asked, worked out once.
DetectedTask == [q \in RouterQueries \cup UnparsedTexts |-> detect_task_type_result(q)]

detect_task_type(query) ==
    /\ ret' = Ret("detect_task_type", TRUE, 0, query, DetectedTask[query])
    /\ UNCHANGED <<now, current_session, execVars, concVars, cacheVars, restVars>>

\* The default of ai.provider_mapping
DefaultMapping ==
    ("research" :> "gemini") @@ ("code" :> "openai") @@ ("math" :> "deepseek")
        @@ ("creative" :> "openai") @@ ("factual" :> "gemini")
        @@ ("system" :> "deepseek") @@ ("default" :> "gemini")

\* dict.get(key, default)
DictGet(dict, key, default) == IF key \in DOMAIN dict THEN dict[key] ELSE default

\* A routing that does not look at the smart_routing switch.
get_provider_for_task_always_mapped(task_type) ==
    DictGet(provider_mapping, task_type, DictGet(provider_mapping, "default", "gemini"))

\* What get_provider_for_task(task_type) returns.
get_provider_for_task_result(task_type) ==
    IF ~smart_routing_enabled
    THEN DictGet(provider_mapping, "default", "gemini")
    ELSE DictGet(provider_mapping, task_type, DictGet(provider_mapping, "default", "gemini"))

get_provider_for_task(task_type) ==
    /\ ret' = Ret("get_provider_for_task", TRUE, 0, <<task_type>>,
                  get_provider_for_task_result(task_type))
    /\ UNCHANGED <<now, current_session, execVars, concVars, cacheVars, restVars>>

\* What route_query(query) returns as the provider.
route_query_provider(query) == get_provider_for_task_result(DetectedTask[query])

(***************************************************************************)
(* smart-router.py: ProviderFallback.                                      *)
(***************************************************************************)
\* self.fallback_chains
fallback_chains ==
    ("openai" :> <<"deepseek", "gemini", "custom">>)
        @@ ("deepseek" :> <<"openai", "gemini", "custom">>)
        @@ ("gemini" :> <<"openai", "deepseek", "custom">>)
        @@ ("custom" :> <<"openai", "deepseek", "gemini">>)

\* ProviderFallback.get_full_fallback_chain(primary_provider)
get_full_fallback_chain(primary_provider) ==
    <<primary_provider>> \o DictGet(fallback_chains, primary_provider, <<"gemini">>)

(***************************************************************************)
(* jarvis/ai_backend-COMPLETE.py: AIBackend.                               *)
(***************************************************************************)
\* The providers _query_provider knows how to call.
KnownProviders == {"openai", "gemini", "deepseek"}

\* The provider argument of query_sync: None, or a provider's name.
NoProvider == "None"
ProviderArgs == {NoProvider} \cup KnownProviders \cup {"custom"}

\* The configurations the backend and its router are constructed from.
Mappings == {
    DefaultMapping,
    ("research" :> "openai"),
    ("code" :> "deepseek") @@ ("general" :> "custom") @@ ("default" :> "openai") }

\* AIBackend(config), which constructs SmartRouter(config)
AIBackend_init(smart_routing, mapping, default_provider) ==
    /\ smart_routing_enabled' = smart_routing
    /\ provider_mapping' = mapping
    /\ current_provider' = default_provider
    /\ ret' = Ret("AIBackend_init", TRUE, 0, <<>>, "")
    /\ UNCHANGED <<now, current_session, execVars, concVars, cacheVars>>
    /\ UNCHANGED <<keywordVars, retryVars, provider_up, ctxVars, backendVars, assistVars>>

\* The remote services come up and go down.
provider_change(up) ==
    /\ provider_up' = up
    /\ ret' = Ret("provider_change", TRUE, 0, <<>>, "")
    /\ UNCHANGED <<now, current_session, execVars, concVars, cacheVars>>
    /\ UNCHANGED <<keywordVars, retryVars, smart_routing_enabled, provider_mapping, current_provider>>
    /\ UNCHANGED <<ctxVars, backendVars, assistVars>>

\* _query_provider(provider, query): whether it returns a response
_query_provider_answers(provider) == provider \in KnownProviders /\ provider \in provider_up

\* The provider query_sync settles on before it calls one.
query_sync_provider(query, provider) ==
    IF provider = NoProvider /\ smart_routing_enabled
    THEN route_query_provider(query)
    ELSE IF provider # NoProvider THEN provider ELSE current_provider

\* What AIBackend.query_sync(query, provider) returns, and the provider it
\* called.
AIBackend_query_sync_result(query, provider) ==
    LET chosen == query_sync_provider(query, provider)
    IN  [provider |-> chosen,
         ok |-> _query_provider_answers(chosen),
         msg |-> IF _query_provider_answers(chosen) THEN chosen ELSE "No response received"]

\* AIBackend.query_sync(query, provider): cmd is the providers it called, in
\* order, and msg the provider whose response it returned
AIBackend_query_sync(query, provider) ==
    LET result == AIBackend_query_sync_result(query, provider)
    IN  /\ current_provider' = result.provider
        /\ ret' = Ret("AIBackend_query_sync", result.ok, 0, <<result.provider>>, result.msg)
        /\ UNCHANGED <<now, current_session, execVars, concVars, cacheVars>>
        /\ UNCHANGED <<keywordVars, retryVars, smart_routing_enabled, provider_mapping, provider_up>>
        /\ UNCHANGED <<ctxVars, backendVars, assistVars>>

\* No query_sync call yet.
NoQuery ==
    [valid |-> FALSE, query |-> <<>>, use_cache |-> FALSE, answered |-> FALSE,
     response |-> "", at |-> 0]

(***************************************************************************)
(* ai_backend_advanced.py: ContextManager.                                 *)
(***************************************************************************)
NoPreviousContext ==
    <<"N", "o", " ", "p", "r", "e", "v", "i", "o", "u", "s", " ",
      "c", "o", "n", "t", "e", "x", "t">>
UserPrefix == <<"U", "s", "e", "r", ":", " ">>
AssistantPrefix == <<"A", "s", "s", "i", "s", "t", "a", "n", "t", ":", " ">>

\* The turn add_turn builds at time t.
NewTurn(user_input, assistant_response, t) ==
    [timestamp |-> t, user |-> user_input, assistant |-> assistant_response]

\* A trimming that drops the turn just appended.
TrimNewest(h) == IF Len(h) > max_history THEN SubSeq(h, 1, Len(h) - 1) ELSE h

\* if len(self.history) > self.max_history: self.history.pop(0)
TrimOldest(h) == IF Len(h) > max_history THEN Tail(h) ELSE h

\* The user texts and the assistant texts of the turns added.
TurnInputs == { <<<<"h", "i">>, <<"o", "k">>>>, <<<<"y", "o">>, <<"n", "o">>>> }

\* add_turn is called at most this many times between two clear_history.
MaxAdded == max_history + 5

\* The keys and values of the user information; a key the dict does not
\* hold has the value get() gives for it, None.
InfoKeys == {"name", "language"}
InfoValues == {"v1", "v2"}
NoValue == "None"
NoUserInfo == [k \in InfoKeys |-> NoValue]

\* ContextManager(max_history)
ContextManager_init(m) ==
    /\ max_history' = m
    /\ user_info' = NoUserInfo
    /\ history' = <<>>
    /\ added' = <<>>
    /\ ret' = Ret("ContextManager_init", TRUE, m, <<>>, "")
    /\ UNCHANGED <<now, current_session, execVars, concVars, cacheVars>>
    /\ UNCHANGED <<keywordVars, retryVars, routerVars, backendVars, assistVars>>

add_turn(user_input, assistant_response) ==
    /\ Len(added) < MaxAdded
    /\ history' = TrimOldest(Append(history, NewTurn(user_input, assistant_response, now)))
    /\ added' = Append(added, NewTurn(user_input, assistant_response, now))
    /\ ret' = Ret("add_turn", TRUE, 0, user_input, "")
    /\ UNCHANGED <<max_history, user_info>>
    /\ UNCHANGED <<now, current_session, execVars, concVars, cacheVars>>
    /\ UNCHANGED <<keywordVars, retryVars, routerVars, backendVars, assistVars>>

\* The first three turns of the history.
FirstTurns(h) == SubSeq(h, 1, IF Len(h) > 3 THEN 3 ELSE Len(h))

\* self.history[-3:]
LastTurns(h) == SubSeq(h, IF Len(h) > 3 THEN Len(h) - 2 ELSE 1, Len(h))

\* context_lines, as the loop of get_context fills it
RECURSIVE ContextLines(_)
ContextLines(turns) ==
    IF turns = <<>> THEN <<>>
    ELSE <<UserPrefix \o turns[1].user, AssistantPrefix \o turns[1].assistant>>
            \o ContextLines(Tail(turns))

\* "\n".join(lines)
RECURSIVE Join(_)
Join(lines) ==
    IF lines = <<>> THEN <<>>
    ELSE IF Len(lines) = 1 THEN lines[1]
    ELSE lines[1] \o <<"\n">> \o Join(Tail(lines))

\* What get_context() returns.
get_context_result ==
    IF history = <<>> THEN NoPreviousContext
    ELSE Join(ContextLines(LastTurns(history)))

get_context ==
    /\ ret' = Ret("get_context", TRUE, 0, get_context_result, "")
    /\ UNCHANGED <<now, current_session, execVars, concVars, cacheVars, restVars>>

\* A clear_history that empties the user information too.
clear_history_forgets ==
    /\ history' = <<>>
    /\ added' = <<>>
    /\ user_info' = NoUserInfo
    /\ UNCHANGED max_history
    /\ ret' = Ret("clear_history", TRUE, 0, <<>>, "")
    /\ UNCHANGED <<now, current_session, execVars, concVars, cacheVars>>
    /\ UNCHANGED <<keywordVars, retryVars, routerVars, backendVars, assistVars>>

clear_history ==
    /\ history' = <<>>
    /\ added' = <<>>
    /\ UNCHANGED <<max_history, user_info>>
    /\ ret' = Ret("clear_history", TRUE, 0, <<>>, "")
    /\ UNCHANGED <<now, current_session, execVars, concVars, cacheVars>>
    /\ UNCHANGED <<keywordVars, retryVars, routerVars, backendVars, assistVars>>

set_user_info(key, value) ==
    /\ user_info' = [user_info EXCEPT ![key] = value]
    /\ ret' = Ret("set_user_info", TRUE, 0, <<>>, key)
    /\ UNCHANGED <<max_history, history, added>>
    /\ UNCHANGED <<now, current_session, execVars, concVars, cacheVars>>
    /\ UNCHANGED <<keywordVars, retryVars, routerVars, backendVars, assistVars>>

get_user_info(key) ==
    /\ ret' = Ret("get_user_info", user_info[key] # NoValue, 0, <<>>, user_info[key])
    /\ UNCHANGED <<now, current_session, execVars, concVars, cacheVars, restVars>>

(***************************************************************************)
(* ai_backend_advanced.py: AdvancedAIBackend.                              *)
(***************************************************************************)
\* The ttl ResponseCache.set gives an entry when its caller passes none
\* (3600 seconds), on the scale of the model's clock.
default_ttl == MaxTtl

\* The provider gave no response.
NoResponse == "None"

\* What the provider client returns for one query: a response, or nothing.
ProviderOutcomes == Responses \cup {NoResponse}

\* response.get('text', '')
ResponseText(response) == IF response = "r1" THEN <<"t", "1">> ELSE <<"t", "2">>

\* The queries the callers of the backend pass, and the history sizes it is
\* configured with.
BackendQueries == { <<"a">>, <<" ", "A", "\t">>, <<"b">> }
HistorySizes == {1, MaxHistory}

\* AdvancedAIBackend(config)
AdvancedAIBackend_init(response_caching, conversation_context, history_size) ==
    /\ cache' = <<>>
    /\ lastSet' = NoSet
    /\ max_entries' = cache_size
    /\ max_history' = history_size
    /\ user_info' = NoUserInfo
    /\ history' = <<>>
    /\ added' = <<>>
    /\ enable_cache' = response_caching
    /\ enable_context' = conversation_context
    /\ lastQuery' = NoQuery
    /\ ret' = Ret("AdvancedAIBackend_init", TRUE, history_size, <<>>, "")
    /\ UNCHANGED <<now, current_session, execVars, concVars, keywordVars, retryVars, routerVars, assistVars>>

\* A test that consults the cache only when response caching is disabled.
ConsultsCacheInverted(use_cache) == use_cache /\ ~enable_cache

\* if use_cache and self.enable_cache
ConsultsCache(use_cache) == use_cache /\ enable_cache

\* A test that stores whatever the provider call returned.
StoresAnyResponse(response) == enable_cache

\* if response and self.enable_cache
StoresResponse(response) == response # NoResponse /\ enable_cache

\* enhanced_query, the text query_sync sends to the provider
enhanced_query(query, include_context) ==
    IF include_context /\ enable_context /\ get_context_result # NoPreviousContext
    THEN <<"C", "o", "n", "t", "e", "x", "t", ":", " ">> \o get_context_result
            \o <<"\n", "\n", "N", "e", "w", " ", "q", "u", "e", "s", "t", "i", "o", "n", ":", " ">>
            \o query
    ELSE query

\* What query_sync and query_async do to the cache and the history, given
\* the text they send to the provider.  ret.num is the number of calls made
\* to the provider and ret.cmd the text sent to it, or the query when the
\* cache answered.
query_steps(op, prompt, query, use_cache) ==
    LET key == Normalize(query)
        i == IndexOf(cache, key)
        found == ConsultsCache(use_cache) /\ i # 0
        hit == found /\ Entry_is_valid(cache[i], now)
        looked == IF found /\ ~hit THEN RemoveAt(cache, i) ELSE cache
    IN  /\ IF hit
           THEN /\ ret' = Ret(op, TRUE, 0, query, cache[i].response)
                /\ lastQuery' = [valid |-> TRUE, query |-> query, use_cache |-> use_cache,
                                 answered |-> FALSE, response |-> cache[i].response,
                                 at |-> now]
                /\ UNCHANGED <<cache, lastSet, history, added>>
           ELSE \E response \in ProviderOutcomes :
                /\ StoresResponse(response) => Len(added) < MaxAnswers
                /\ IF StoresResponse(response)
                   THEN /\ cache' = Put(AfterEviction(looked),
                                        NewEntry(query, response, default_ttl, now))
                        /\ lastSet' = [valid |-> TRUE, query |-> query,
                                       response |-> response, ttl |-> default_ttl,
                                       at |-> now]
                        /\ history' = TrimOldest(Append(history,
                                        NewTurn(query, ResponseText(response), now)))
                        /\ added' = Append(added,
                                        NewTurn(query, ResponseText(response), now))
                   ELSE /\ cache' = looked
                        /\ UNCHANGED <<lastSet, history, added>>
                /\ ret' = Ret(op, response # NoResponse, 1, prompt, response)
                /\ lastQuery' = [valid |-> TRUE, query |-> query, use_cache |-> use_cache,
                                 answered |-> response # NoResponse,
                                 response |-> response, at |-> now]
        /\ UNCHANGED <<now, current_session, execVars, concVars, keywordVars, retryVars, assistVars>>
        /\ UNCHANGED <<max_entries, max_history, user_info, enable_cache, enable_context>>

\* AdvancedAIBackend.query_sync(query, use_cache, include_context) on the
\* cache and the history: the provider is sent enhanced_query.
query_sync_steps(query, use_cache, include_context) ==
    query_steps("query_sync", enhanced_query(query, include_context), query, use_cache)

\* AdvancedAIBackend.query_async(query, use_cache, include_context): the
\* provider is sent the query.  The await of the provider call is taken
\* with no other coroutine running in between.
query_async(query, use_cache, include_context) ==
    /\ query_steps("query_async", query, query, use_cache)
    /\ UNCHANGED routerVars

\* AdvancedAIBackend.query_sync(query, use_cache, include_context), the
\* provider call being any client that returns a response or nothing.
query_sync(query, use_cache, include_context) ==
    /\ query_sync_steps(query, use_cache, include_context)
    /\ UNCHANGED routerVars

\* The cache answers query_sync(query, use_cache) without a provider call.
CacheAnswers(query, use_cache) ==
    LET i == IndexOf(cache, Normalize(query))
    IN  ConsultsCache(use_cache) /\ i # 0 /\ Entry_is_valid(cache[i], now)

\* The task type the router detects in a text.
TaskOf(text) ==
    IF text \in DOMAIN DetectedTask THEN DetectedTask[text]
    ELSE detect_task_type_result(text)

\* The provider AIBackend.query_sync(text) settles on, given no provider.
routed_provider(text) ==
    IF smart_routing_enabled
    THEN get_provider_for_task_result(TaskOf(text))
    ELSE current_provider

\* AdvancedAIBackend.query_sync(query, use_cache, include_context) over
\* AIBackend.query_sync, which routes the text it is handed.
query_sync_routed(query, use_cache, include_context) ==
    /\ query_sync_steps(query, use_cache, include_context)
    /\ current_provider' =
          IF CacheAnswers(query, use_cache) THEN current_provider
          ELSE routed_provider(enhanced_query(query, include_context))
    /\ UNCHANGED <<smart_routing_enabled, provider_mapping, provider_up>>

(***************************************************************************)
(* jarvis/command_executor.py: CommandExecutor.execute for the intents     *)
(* that are not shell commands, with jarvis/security.py: DownloadValidator *)
(* and jarvis/screen_controller.py: ScreenController.open_app.  env_ok is  *)
(* whether the outside world lets the operation succeed.                   *)
(***************************************************************************)
\* config['features']: each flag is False when the configuration omits it
Features(file_editing, downloads, gui_automation) ==
    [file_editing |-> file_editing, downloads |-> downloads,
     gui_automation |-> gui_automation]
NoFeatures == Features(FALSE, FALSE, FALSE)
AllFeatures == Features(TRUE, TRUE, TRUE)
FeatureSets == {NoFeatures, AllFeatures}

\* What a method of the executor returns, a (success, message) pair unless
\* pair is FALSE, and what it did outside.
Outcome(ok, msg, did) == [pair |-> TRUE, ok |-> ok, msg |-> msg, effect |-> did]
BareOutcome(ok, did) == [pair |-> FALSE, ok |-> ok, msg |-> "", effect |-> did]

Http == <<"h", "t", "t", "p", ":", "/", "/">>
Https == <<"h", "t", "t", "p", "s", ":", "/", "/">>

\* DownloadValidator.validate_url(url)
validate_url(url) ==
    IF url = <<>> THEN Verdict(FALSE, "Invalid URL format")
    ELSE IF ~(MatchAt(url, Http, 1) \/ MatchAt(url, Https, 1))
    THEN Verdict(FALSE, "URL must start with http:// or https://")
    ELSE Verdict(TRUE, "URL is valid")

\* url.split('/')[-1] or 'download'
DownloadName(url) ==
    LET slashes == {k \in 1..Len(url) : url[k] = "/"}
        name == IF slashes = {} THEN url ELSE Drop(url, SetMax(slashes))
    IN  IF name = <<>> THEN WDownload ELSE name

\* DownloadValidator.validate_filename(filename)
validate_filename(filename) ==
    IF filename = <<>> THEN Verdict(FALSE, "Invalid filename")
    ELSE IF \E k \in 1..Len(filename) : filename[k] \in {"/", "\\", "\n", "\r"}
    THEN Verdict(FALSE, "Filename contains invalid characters")
    ELSE Verdict(TRUE, "Filename is valid")

WRead == <<"r", "e", "a", "d">>

\* _execute_file_operation(action, params); a file that exists is env_ok
_execute_file_operation(action, params, env_ok) ==
    IF ~features.file_editing THEN Outcome(FALSE, "File editing is disabled", "none")
    ELSE IF params.key # "filename" \/ params.value = <<>>
    THEN Outcome(FALSE, "No filename specified", "none")
    ELSE IF action = WEdit THEN Outcome(TRUE, "Opened", "editor")
    ELSE IF action = WRead
    THEN IF env_ok THEN Outcome(TRUE, "content", "read")
         ELSE Outcome(FALSE, "File not found", "none")
    ELSE BareOutcome(FALSE, "none")

\* _execute_download(params); a transfer that completes is env_ok
_execute_download(params, env_ok) ==
    IF ~features.downloads THEN Outcome(FALSE, "Downloads are disabled", "none")
    ELSE IF params.key # "url" \/ params.value = <<>>
    THEN Outcome(FALSE, "No URL specified", "none")
    ELSE IF ~validate_url(params.value).allowed
    THEN Outcome(FALSE, validate_url(params.value).reason, "none")
    ELSE IF ~validate_filename(DownloadName(params.value)).allowed
    THEN Outcome(FALSE, validate_filename(DownloadName(params.value)).reason, "none")
    ELSE IF env_ok THEN Outcome(TRUE, "Downloaded", "urlretrieve")
    ELSE Outcome(FALSE, "Download error", "urlretrieve")

\* _execute_app_open(params): it returns what open_app returns, a bool; a
\* Popen that starts is env_ok
_execute_app_open(params, env_ok) ==
    IF ~features.gui_automation THEN Outcome(FALSE, "GUI automation is disabled", "none")
    ELSE IF params.key # "app" \/ params.value = <<>>
    THEN Outcome(FALSE, "No app specified", "none")
    ELSE BareOutcome(env_ok, "Popen")

\* _execute_gui_action(action, params); a screen controller that does not
\* raise is env_ok
_execute_gui_action(action, params, env_ok) ==
    IF ~features.gui_automation THEN Outcome(FALSE, "GUI automation is disabled", "none")
    ELSE IF action = WClick THEN Outcome(TRUE, "Clicked on", "none")
    ELSE IF action = WScroll
    THEN IF env_ok THEN Outcome(TRUE, "Scrolled", "scroll")
         ELSE Outcome(FALSE, "GUI action error", "scroll")
    ELSE IF action = WType
    THEN IF env_ok THEN Outcome(TRUE, "Typed", "type_text")
         ELSE Outcome(FALSE, "GUI action error", "type_text")
    ELSE Outcome(FALSE, "Unknown GUI action", "none")

\* An execute() that asks the security gate about the parameter of every
\* intent before it runs it.
execute_other_gated(i, env_ok) ==
    IF ~check_command(i.params.value, Sudo_is_valid(sudo_session, now)).allowed
    THEN Outcome(FALSE, "Command contains dangerous keywords and sudo not active", "none")
    ELSE IF i.intent_type = "file" THEN _execute_file_operation(i.action, i.params, env_ok)
    ELSE IF i.intent_type = "download" THEN _execute_download(i.params, env_ok)
    ELSE IF i.intent_type = "app" THEN _execute_app_open(i.params, env_ok)
    ELSE IF i.intent_type = "gui" THEN _execute_gui_action(i.action, i.params, env_ok)
    ELSE Outcome(FALSE, "Unknown intent type", "none")

\* execute(intent) for an intent that is not a shell command
execute_other(i, env_ok) ==
    IF i.intent_type = "file" THEN _execute_file_operation(i.action, i.params, env_ok)
    ELSE IF i.intent_type = "download" THEN _execute_download(i.params, env_ok)
    ELSE IF i.intent_type = "app" THEN _execute_app_open(i.params, env_ok)
    ELSE IF i.intent_type = "gui" THEN _execute_gui_action(i.action, i.params, env_ok)
    ELSE Outcome(FALSE, "Unknown intent type", "none")

\* CommandExecutor(config)
CommandExecutor_init(feature_flags, system_commands, duration) ==
    /\ features' = feature_flags
    /\ allow_system_commands' = system_commands
    /\ duration_seconds' = duration
    /\ sudo_session' = SudoInactive
    /\ xpc' = "idle"
    /\ xcommand' = <<>>
    /\ xallowed' = FALSE
    /\ xreason' = ""
    /\ intent' = NoIntent
    /\ calls' = <<>>
    /\ effect' = "none"
    /\ ret' = Ret("CommandExecutor_init", TRUE, 0, <<>>, "")
    /\ UNCHANGED <<now, current_session, concVars, cacheVars>>
    /\ UNCHANGED <<keywordVars, retryVars, routerVars, ctxVars, backendVars>>

\* parse_intent(command_text), called by itself
parse_intent(command_text) ==
    /\ intent' = ParsedIntent[command_text]
    /\ ret' = Ret("parse_intent", intent'.exists, 0, command_text, intent'.intent_type)
    /\ UNCHANGED <<now, current_session, execVars, concVars, cacheVars>>
    /\ UNCHANGED <<keywordVars, retryVars, routerVars, ctxVars, backendVars, features, calls, effect>>

(***************************************************************************)
(* main_advance.py: JARVISAssistant._process_command.  A shell command it  *)
(* lets through is run by the step _execute_shell_run.                     *)
(***************************************************************************)
\* A dispatcher that hands every text to the executor.
TakesCommandPathAlways(i) == TRUE

\* if intent:
TakesCommandPath(i) == i.exists

\* What _process_command says when the call it made raised.
ProcessingError == "An error occurred while processing your command"

\* The texts the assistant hears.
AssistantTexts == {
    TRunLs, TExecuteRm, TOpenFileNotes, TEditFileMkfs, TDownloadFrom,
    TDownloadReboot, TDownloadOpen, TOpenVlc, TOpenReboot, TClickOn,
    TClickPoweroff, TScrollUp, TTypeQuoted, TTypeRm, THello, TWhatIs, TTyped }

_process_command(command_text) ==
    LET i == ParsedIntent[command_text]
    IN  /\ xpc = "idle"
        /\ intent' = i
        /\ IF TakesCommandPath(i)
           THEN /\ calls' = <<"parse_intent", "execute">>
                /\ IF i.intent_type = "shell"
                   THEN LET checked == _execute_shell_checked(i.action)
                        IN  /\ ret' = Ret("_process_command", checked.ret.ok, 0,
                                          command_text, checked.ret.msg)
                            /\ sudo_session' = checked.sudo_session
                            /\ xpc' = checked.xpc
                            /\ xcommand' = checked.xcommand
                            /\ xallowed' = checked.xallowed
                            /\ xreason' = checked.xreason
                            /\ effect' = "none"
                   ELSE \E env_ok \in BOOLEAN :
                        LET outcome == execute_other(i, env_ok)
                        IN  /\ ret' = Ret("_process_command", outcome.ok, 0, command_text,
                                          IF outcome.pair THEN outcome.msg
                                          ELSE ProcessingError)
                            /\ effect' = outcome.effect
                            /\ UNCHANGED <<sudo_session, xpc, xcommand, xallowed, xreason>>
                /\ UNCHANGED routerVars
           ELSE LET result == AIBackend_query_sync_result(command_text, NoProvider)
                IN  /\ calls' = <<"parse_intent", "query_sync">>
                    /\ current_provider' = result.provider
                    /\ ret' = Ret("_process_command", result.ok, 0, command_text, result.msg)
                    /\ effect' = "none"
                    /\ UNCHANGED <<sudo_session, xpc, xcommand, xallowed, xreason>>
                    /\ UNCHANGED <<smart_routing_enabled, provider_mapping, provider_up>>
        /\ UNCHANGED <<now, current_session, allow_system_commands, duration_seconds, concVars, cacheVars>>
        /\ UNCHANGED <<keywordVars, retryVars, ctxVars, backendVars, features>>

(***************************************************************************)
(* The clock.                                                              *)
(***************************************************************************)
Tick(limit) ==
    /\ now < limit
    /\ now' = now + 1
    /\ ret' = Ret("tick", TRUE, 0, <<>>, "")
    /\ UNCHANGED <<current_session, execVars, concVars, cacheVars, restVars>>

Init ==
    /\ now = 0
    /\ current_session = NoSession
    /\ sudo_session = SudoInactive
    /\ allow_system_commands \in BOOLEAN
    /\ duration_seconds = sudo_mode_duration
    /\ default_sudo_duration = sudo_mode_duration
    /\ xpc = "idle"
    /\ xcommand = <<>>
    /\ xallowed = FALSE
    /\ xreason = ""
    /\ cpc = [c \in Callers |-> "idle"]
    /\ carg = [c \in Callers |-> NoneArg]
    /\ cres = [c \in Callers |-> NoResult]
    /\ kpc = [c \in Callers |-> "idle"]
    /\ kloc = [c \in Callers |-> NoLocals]
    /\ cache = <<>>
    /\ lastSet = NoSet
    /\ max_entries = cache_size
    /\ sudo_keyword = DefaultKeyword
    /\ allow_custom_sudo = TRUE
    /\ allow_timed_sudo = TRUE
    /\ smart_routing_enabled = TRUE
    /\ provider_mapping = DefaultMapping
    /\ current_provider = "gemini"
    /\ provider_up = {}
    /\ features = NoFeatures
    /\ intent = NoIntent
    /\ calls = <<>>
    /\ effect = "none"
    /\ max_history = MaxHistory
    /\ user_info = NoUserInfo
    /\ history = <<>>
    /\ added = <<>>
    /\ enable_cache = TRUE
    /\ enable_context = TRUE
    /\ lastQuery = NoQuery
    /\ rpc = "idle"
    /\ max_retries = 3
    /\ backoff_factor = 2
    /\ attempt = 0
    /\ func_calls = 0
    /\ failures = 0
    /\ waits = <<>>
    /\ retry_outcome = "none"
    /\ ret = Ret("init", TRUE, 0, <<>>, "")

Next ==
    \/ Tick(MaxTime)
    \/ \E a \in DurationArgs : activate_sudo_mode(a)
    \/ is_sudo_active
    \/ get_remaining_time
    \/ end_session
    \/ SudoSession_activate
    \/ SudoSession_deactivate
    \/ SudoSession_is_valid
    \/ SudoSession_remaining_time
    \/ \E c \in ShellCommands : _execute_shell_check(c)
    \/ _execute_shell_run

\* One security manager and one command executor, used by one caller.
Spec == Init /\ [][Next]_vars

NextConcurrent ==
    \/ Tick(MaxTime)
    \/ \E c \in Callers, a \in DurationArgs : activate_sudo_mode_test(c, a)
    \/ \E c \in Callers : activate_sudo_mode_create(c)

\* One security manager whose activate_sudo_mode several callers run at once.
SpecConcurrent == Init /\ [][NextConcurrent]_vars

\* The cache of a gateway whose executor has system commands disabled (the default).
InitCache == Init /\ ~allow_system_commands

NextCache ==
    \/ Tick(MaxCacheTime)
    \/ \E q \in Queries : cache_get(q)
    \/ \E q \in Queries, r \in Responses, t \in Ttls : cache_set(q, r, t)
    \/ cache_clear

\* One response cache, used by one caller.
SpecCache == InitCache /\ [][NextCache]_vars

\* The numbers a caller says after the keyword.
TimeValues == {0 - 5, 0, 1, 2, 300, 3600, 3601}

\* The keyword followed by a number.
KeywordThen(n) == sudo_keyword \o <<" ">> \o Numeral(n)

\* The keyword inside a longer sentence.
KeywordEmbedded ==
    <<"p", "l", "e", "a", "s", "e", " ">> \o sudo_keyword \o <<" ", "n", "o", "w">>

\* Texts that do not depend on the configured keyword.
OtherInputs == {
    <<"h", "e", "l", "l", "o", " ", "w", "o", "r", "l", "d">>,
    <<"s", "u", "d", "o", " ", "c", "o", "d", "e", " ", "3", "0", "0">>,
    <<"S", "U", "D", "O", " ", "C", "o", "d", "e", " ", "3", "0", "0", " ">>,
    <<"s", "u", "d", "o", " ", "c", "o", "d", "e", " ", "a", "b", "c">>,
    <<"s", "u", "d", "o", " ", "c", "o", "d", "e", " ", "1", "_", "0">>,
    <<"s", "u", "d", "o", " ", "c", "o", "d", "e", " ", "3", "0", "0", " ",
      "p", "l", "e", "a", "s", "e">>,
    <<"p", "s", "e", "u", "d", "o", " ", "c", "o", "d", "e", " ", "1", "2", " ",
      "l", "i", "n", "e", "s">>,
    <<>> }

\* What a caller says: the keyword, the keyword then a number, the keyword in
\* a sentence, or another text.
Utterances ==
    {[kind |-> "keyword", n |-> 0, text |-> <<>>],
     [kind |-> "embedded", n |-> 0, text |-> <<>>]}
    \cup {[kind |-> "then", n |-> n, text |-> <<>>] : n \in TimeValues}
    \cup {[kind |-> "text", n |-> 0, text |-> t] : t \in OtherInputs}

\* The text of an utterance, under the keyword configured now.
TextOf(u) ==
    CASE u.kind = "keyword" -> sudo_keyword
      [] u.kind = "embedded" -> KeywordEmbedded
      [] u.kind = "then" -> KeywordThen(u.n)
      [] OTHER -> u.text

NextKeyword ==
    \/ \E k \in Keywords, custom \in BOOLEAN, timed \in BOOLEAN :
          EnhancedSecurityManager_init(k, custom, timed, sudo_mode_duration)
    \/ \E u \in Utterances : parse_sudo_keyword(TextOf(u))

\* One security manager, constructed from a configuration, parsing what it hears.
SpecKeyword == InitCache /\ [][NextKeyword]_vars

\* The keywords a configuration file gives, and the ones a user picks later.
ConfiguredKeywords == {DefaultKeyword, SudoCode}
OpenSesame == <<"o", "p", "e", "n", " ", "s", "e", "s", "a", "m", "e">>
NewKeywords == {OpenSesame, <<"J", "a", "r", "v", "i", "s">>, <<"o", "k">>, <<>>}

\* The phrases built from the configured keywords.
OldPhrases == {
    SudoCode,
    DefaultKeyword,
    <<"s", "u", "d", "o", " ", "c", "o", "d", "e", " ", "3", "0", "0">>,
    <<"p", "l", "e", "a", "s", "e", " ", "s", "u", "d", "o", " ", "c", "o", "d", "e">> }

NextCustomize ==
    \/ \E k \in ConfiguredKeywords, custom \in BOOLEAN, timed \in BOOLEAN :
          EnhancedSecurityManager_init(k, custom, timed, sudo_mode_duration)
    \/ \E k \in NewKeywords : customize_sudo_keyword(k)
    \/ \E t \in OldPhrases \cup NewKeywords : parse_sudo_keyword(t)

\* One security manager, constructed with a configured keyword, whose user
\* changes the keyword and speaks old and new phrases.
SpecCustomize == InitCache /\ [][NextCustomize]_vars

NextRouter ==
    \/ \E sr \in BOOLEAN, m \in Mappings, d \in KnownProviders : AIBackend_init(sr, m, d)
    \/ \E up \in SUBSET KnownProviders : provider_change(up)
    \/ \E q \in RouterQueries : detect_task_type(q)
    \/ \E k \in 1..Len(TaskTypes) : get_provider_for_task(TaskTypes[k])
    \/ \E q \in RouterQueries, pr \in ProviderArgs : AIBackend_query_sync(q, pr)

\* One backend with its router, and the remote providers it calls.
SpecRouter == InitCache /\ [][NextRouter]_vars

NextContext ==
    \/ \E m \in 0..MaxHistory : ContextManager_init(m)
    \/ \E t \in TurnInputs : add_turn(t[1], t[2])
    \/ get_context
    \/ clear_history

\* One conversation context, used by one caller.
SpecContext == InitCache /\ [][NextContext]_vars

\* The history sizes of the context managers that hold user information.
SmallHistorySizes == {1, 2}

\* The turn added to them.
GreetingTurn == <<<<"h", "i">>, <<"o", "k">>>>

NextPreferences ==
    \/ Tick(MaxCacheTime)
    \/ \E m \in SmallHistorySizes : ContextManager_init(m)
    \/ add_turn(GreetingTurn[1], GreetingTurn[2])
    \/ clear_history
    \/ \E k \in InfoKeys, v \in InfoValues : set_user_info(k, v)
    \/ \E k \in InfoKeys : get_user_info(k)

\* One conversation context with its user information, used by one caller.
SpecPreferences == InitCache /\ [][NextPreferences]_vars

NextBackend ==
    \/ Tick(MaxCacheTime)
    \/ \E c \in BOOLEAN, x \in BOOLEAN, h \in HistorySizes : AdvancedAIBackend_init(c, x, h)
    \/ \E q \in BackendQueries, u \in BOOLEAN, x \in BOOLEAN : query_sync(q, u, x)

\* One advanced backend, used by one caller, and the provider it calls.
SpecBackend == InitCache /\ [][NextBackend]_vars

NextAsync ==
    \/ Tick(MaxCacheTime)
    \/ \E c \in BOOLEAN, x \in BOOLEAN, h \in HistorySizes : AdvancedAIBackend_init(c, x, h)
    \/ \E q \in BackendQueries, u \in BOOLEAN, x \in BOOLEAN : query_sync(q, u, x)
    \/ \E q \in BackendQueries, u \in BOOLEAN, x \in BOOLEAN : query_async(q, u, x)

\* One advanced backend whose caller uses both query_sync and query_async.
SpecAsync == InitCache /\ [][NextAsync]_vars

\* The queries the callers of the routed gateway ask.
GatewayQueries == {QWritePython, QHello}

NextGateway ==
    \/ \E sr \in BOOLEAN : AIBackend_init(sr, DefaultMapping, "gemini")
    \/ \E c \in BOOLEAN, x \in BOOLEAN : AdvancedAIBackend_init(c, x, MaxHistory)
    \/ \E q \in GatewayQueries, u \in BOOLEAN, x \in BOOLEAN : query_sync_routed(q, u, x)

\* One advanced backend over the routing backend, used by one caller.
SpecGateway == InitCache /\ [][NextGateway]_vars

NextParser ==
    \/ \E t \in CommandTexts : parse_intent(t)
    \/ \E f \in FeatureSets, a \in BOOLEAN : CommandExecutor_init(f, a, sudo_mode_duration)

\* One command executor whose parse_intent one caller uses.
SpecParser == InitCache /\ [][NextParser]_vars

NextAssistant ==
    \/ Tick(MaxCacheTime)
    \/ \E f \in FeatureSets, a \in BOOLEAN : CommandExecutor_init(f, a, sudo_mode_duration)
    \/ SudoSession_activate
    \/ SudoSession_deactivate
    \/ \E up \in {{}, KnownProviders} : provider_change(up)
    \/ \E t \in AssistantTexts : _process_command(t)
    \/ _execute_shell_run

\* One assistant with its command executor and its backend, used by one
\* caller.
SpecAssistant == Init /\ [][NextAssistant]_vars

\* The values a configuration gives security.sudo_mode_duration.
ConfiguredDurations == (0 - 1)..MaxDuration

NextConfig ==
    \/ Tick(MaxTime)
    \/ \E d \in ConfiguredDurations :
          EnhancedSecurityManager_init(DefaultKeyword, TRUE, TRUE, d)
    \/ \E a \in BOOLEAN, d \in ConfiguredDurations : CommandExecutor_init(NoFeatures, a, d)
    \/ \E a \in DurationArgs : activate_sudo_mode(a)
    \/ is_sudo_active
    \/ SudoSession_activate
    \/ SudoSession_is_valid

\* The queries the callers of a cache of any capacity pass.
SizedQueries == { <<"a">>, <<"b">>, <<"c">>, <<"d">> }

NextCacheSized ==
    \/ Tick(MaxCacheTime)
    \/ \E n \in 1..MaxEntries : ResponseCache_init(n)
    \/ \E q \in SizedQueries : cache_get(q)
    \/ \E q \in SizedQueries : cache_set(q, "r1", MaxTtl)
    \/ cache_clear
    \/ get_stats

\* One response cache of any capacity from 1 to MaxEntries, used by one caller.
SpecCacheSized == InitCache /\ [][NextCacheSized]_vars

(***************************************************************************)
(* intellight_error_handeler.py: ErrorRecovery.retry_with_backoff          *)
(***************************************************************************)

\* backoff_factor ** attempt
RECURSIVE Power(_, _)
Power(base, exponent) ==
    IF exponent = 0 THEN 1 ELSE base * Power(base, exponent - 1)

\* retry_with_backoff(func, max_retries, backoff_factor) up to the first
\* call of func: range(max_retries) is empty for max_retries <= 0, and the
\* function then falls through to its final return None.
retry_with_backoff(retries, factor) ==
    /\ rpc \in {"idle", "done"}
    /\ max_retries' = retries
    /\ backoff_factor' = factor
    /\ attempt' = 0
    /\ func_calls' = 0
    /\ failures' = 0
    /\ waits' = <<>>
    /\ IF retries <= 0
       THEN rpc' = "done" /\ retry_outcome' = "returned None"
       ELSE rpc' = "call" /\ retry_outcome' = "none"
    /\ ret' = Ret("retry_with_backoff", TRUE, retries, <<>>, "")
    /\ UNCHANGED <<now, current_session, execVars, concVars, cacheVars>>
    /\ UNCHANGED <<keywordVars, routerVars, ctxVars, backendVars, assistVars>>

\* return func(), when func returns
func_returns ==
    /\ rpc = "call"
    /\ func_calls' = func_calls + 1
    /\ rpc' = "done"
    /\ retry_outcome' = "returned"
    /\ ret' = Ret("func_returns", TRUE, attempt, <<>>, "")
    /\ UNCHANGED <<max_retries, backoff_factor, attempt, failures, waits>>
    /\ UNCHANGED <<now, current_session, execVars, concVars, cacheVars>>
    /\ UNCHANGED <<keywordVars, routerVars, ctxVars, backendVars, assistVars>>

\* A handler that takes the attempt after the last one for the last.
func_raises_late ==
    /\ rpc = "call"
    /\ func_calls' = func_calls + 1
    /\ failures' = failures + 1
    /\ IF attempt = max_retries
       THEN rpc' = "done" /\ retry_outcome' = "raised"
       ELSE rpc' = "sleep" /\ retry_outcome' = retry_outcome
    /\ ret' = Ret("func_raises", FALSE, attempt, <<>>, "")
    /\ UNCHANGED <<max_retries, backoff_factor, attempt, waits>>
    /\ UNCHANGED <<now, current_session, execVars, concVars, cacheVars>>
    /\ UNCHANGED <<keywordVars, routerVars, ctxVars, backendVars, assistVars>>

\* func() raises an Exception: the handler re-raises it on the last
\* attempt and goes on to the wait otherwise
func_raises ==
    /\ rpc = "call"
    /\ func_calls' = func_calls + 1
    /\ failures' = failures + 1
    /\ IF attempt = max_retries - 1
       THEN rpc' = "done" /\ retry_outcome' = "raised"
       ELSE rpc' = "sleep" /\ retry_outcome' = retry_outcome
    /\ ret' = Ret("func_raises", FALSE, attempt, <<>>, "")
    /\ UNCHANGED <<max_retries, backoff_factor, attempt, waits>>
    /\ UNCHANGED <<now, current_session, execVars, concVars, cacheVars>>
    /\ UNCHANGED <<keywordVars, routerVars, ctxVars, backendVars, assistVars>>

\* time.sleep(wait_time) and the next turn of the loop; time.sleep raises
\* ValueError for a negative argument, and that exception leaves the
\* handler and the function
sleep ==
    /\ rpc = "sleep"
    /\ LET wait_time == Power(backoff_factor, attempt)
       IN  IF wait_time < 0
           THEN /\ rpc' = "done"
                /\ retry_outcome' = "sleep raised"
                /\ UNCHANGED <<attempt, waits>>
           ELSE /\ rpc' = "call"
                /\ waits' = Append(waits, wait_time)
                /\ attempt' = attempt + 1
                /\ retry_outcome' = retry_outcome
    /\ ret' = Ret("sleep", TRUE, attempt, <<>>, "")
    /\ UNCHANGED <<max_retries, backoff_factor, func_calls, failures>>
    /\ UNCHANGED <<now, current_session, execVars, concVars, cacheVars>>
    /\ UNCHANGED <<keywordVars, routerVars, ctxVars, backendVars, assistVars>>

NextRetry ==
    \/ \E retries \in 0..MaxRetries, factor \in (0 - 1)..MaxBackoff :
           retry_with_backoff(retries, factor)
    \/ func_returns
    \/ func_raises
    \/ sleep

\* Calls of retry_with_backoff, one after another, with a func that
\* terminates: each call of func returns or raises, and each sleep ends.
SpecRetry ==
    /\ Init
    /\ [][NextRetry]_vars
    /\ WF_vars(func_returns \/ func_raises)
    /\ WF_vars(sleep)

\* The texts check_sudo_keyword hears.
HeardTexts == {
    SudoCode,
    <<"p", "l", "e", "a", "s", "e", " ", "S", "U", "D", "O", " ", "C", "o", "d", "e">>,
    <<"r", "u", "n", " ", "l", "s">>,
    <<"s", "u", "d", "o">> }

NextHeard ==
    \/ Tick(MaxTime)
    \/ \E t \in HeardTexts : check_sudo_keyword(t)
    \/ SudoSession_is_valid
    \/ SudoSession_deactivate

\* One command executor whose check_sudo_keyword hears every command.
SpecHeard == Init /\ [][NextHeard]_vars

NextSudoExec ==
    \/ Tick(MaxTime)
    \/ \E a \in DurationArgs : activate_sudo_mode(a)
    \/ end_session
    \/ \E c \in ShellCommands : execute_with_sudo(c)

\* One security manager whose execute_with_sudo one caller uses.
SpecSudoExec == Init /\ [][NextSudoExec]_vars

NextCacheConcurrent ==
    \/ Tick(MaxCacheTime)
    \/ \E c \in Callers, q \in SharedQueries : cache_get_test(c, q)
    \/ \E c \in Callers : cache_get_read(c)
    \/ \E c \in Callers : cache_get_del(c)
    \/ \E c \in Callers, q \in SharedQueries, t \in SharedTtls : cache_set_test(c, q, "r1", t)
    \/ \E c \in Callers : cache_set_min(c)
    \/ \E c \in Callers : cache_set_del(c)
    \/ \E c \in Callers : cache_set_put(c)

\* One response cache whose get and set several callers run at once.
SpecCacheConcurrent == InitCache /\ [][NextCacheConcurrent]_vars

\* A security manager and a command executor constructed from configurations
\* of any default session duration, then used by one caller.
SpecConfig == Init /\ [][NextConfig]_vars

(***************************************************************************)
(* Properties of the session managers, the gate and the shell executor.    *)
(***************************************************************************)
\* The enhanced manager holds a session that is valid at time t.
EnhancedValidAt(t) ==
    current_session.exists /\ current_session.is_active /\ t <= current_session.end_time

\* The executor's session is valid at time t.
ExecutorValidAt(t) ==
    /\ sudo_session.active
    /\ sudo_session.has_start
    /\ t - sudo_session.session_start <= sudo_mode_duration

\* The command contains an entry of the dangerous-pattern list, letter case ignored.
MatchesDangerousPattern(cmd) ==
    \E k \in 1..Len(dangerous_keywords) :
        \E off \in 0..(Len(cmd) - Len(dangerous_keywords[k])) :
            \A j \in 1..Len(dangerous_keywords[k]) :
                LowerChar(cmd[off + j]) = LowerChar(dangerous_keywords[k][j])

IsBlank(cmd) == \A i \in 1..Len(cmd) : cmd[i] \in Whitespace

\* C1: an activate call made while the current session is still valid fails,
\* reports the time remaining and leaves the session as it was; a successful
\* activate only ever starts from a state with no valid session (the previous
\* one expired or was deactivated).  Both session managers.
C1_ActivateWhileValidFails ==
    [][ /\ (ret'.op = "activate_sudo_mode" /\ EnhancedValidAt(now))
            => /\ ~ret'.ok
               /\ current_session' = current_session
               /\ ret'.num = current_session.end_time - now
        /\ (ret'.op = "activate_sudo_mode" /\ ret'.ok) => ~EnhancedValidAt(now)
        /\ (ret'.op = "SudoSession_activate" /\ ExecutorValidAt(now))
            => ~ret'.ok /\ sudo_session' = sudo_session
        /\ (ret'.op = "SudoSession_activate" /\ ret'.ok) => ~ExecutorValidAt(now)
      ]_vars

\* A second activate, in the second the session of one second was granted,
\* failed and left the whole second remaining.
C1_Witness ==
    /\ ret.op = "activate_sudo_mode"
    /\ ~ret.ok
    /\ current_session.is_active
    /\ current_session.start_time = now
    /\ current_session.end_time = now + 1
    /\ ret.num = 1

\* C2: a check made at a time after the session's end returns false and marks
\* the session inactive; the clock alone never changes a session (the expiry
\* is applied by the check); an inactive session becomes active again only by
\* a successful activate.  Both session managers.
C2_ExpiredIsInactive ==
    [][ /\ (ret'.op = "is_sudo_active" /\ current_session.exists
                /\ now > current_session.end_time)
            => ~ret'.ok /\ ~current_session'.is_active
        /\ (ret'.op = "SudoSession_is_valid" /\ sudo_session.has_start
                /\ now - sudo_session.session_start > sudo_mode_duration)
            => ~ret'.ok /\ ~sudo_session'.active
        /\ ret'.op = "tick"
            => current_session' = current_session /\ sudo_session' = sudo_session
        /\ (~current_session.is_active /\ current_session'.is_active)
            => ret'.op = "activate_sudo_mode" /\ ret'.ok
        /\ (~sudo_session.active /\ sudo_session'.active)
            => ret'.op = "SudoSession_activate" /\ ret'.ok
      ]_vars

\* A check after the end of the session expired it and returned false.
C2_Witness ==
    /\ ret.op = "is_sudo_active"
    /\ ret.msg = "Sudo session expired"
    /\ ~ret.ok
    /\ now > current_session.end_time
    /\ ~current_session.is_active

\* C3, as stated: a dangerous shell action is allowed exactly when the
\* session is active at the check, and any other shell action is allowed.
C3_AsClaimed ==
    [][ ret'.op = "check_command"
            => /\ MatchesDangerousPattern(ret'.cmd) => (ret'.ok <=> ExecutorValidAt(now))
               /\ ~MatchesDangerousPattern(ret'.cmd) => ret'.ok
      ]_vars

\* C3, amended: a dangerous shell action is allowed exactly when the session
\* is active at the check; an action that is not blank and matches no
\* dangerous pattern is allowed whatever the session; an empty or blank
\* action is denied whatever the session.
C3_GateDecision ==
    [][ ret'.op = "check_command"
            => /\ MatchesDangerousPattern(ret'.cmd) => (ret'.ok <=> ExecutorValidAt(now))
               /\ (~MatchesDangerousPattern(ret'.cmd) /\ ~IsBlank(ret'.cmd)) => ret'.ok
               /\ IsBlank(ret'.cmd) => ~ret'.ok
      ]_vars

\* The gate allowed the upper-case recursive delete under an active session.
C3_Witness ==
    /\ ret.op = "check_command"
    /\ ret.cmd = CmdRmUpper
    /\ ret.ok
    /\ ret.msg = "Allowed under sudo session"
    /\ ExecutorValidAt(now)

\* C4: the subprocess is started only for the command the gate has just
\* allowed, and a denied command returns without reaching the subprocess.
C4_RunOnlyAfterAllowed ==
    [][ /\ ret'.op = "subprocess_run"
            => xpc = "run" /\ xallowed /\ ret'.cmd = xcommand
        /\ (ret'.op = "check_command" /\ xpc' = "run")
            => ret'.ok /\ xallowed' /\ xcommand' = ret'.cmd
        /\ (ret'.op = "check_command" /\ ~ret'.ok) => xpc' = "idle"
        /\ ret'.op = "system_commands_disabled" => xpc' = "idle"
      ]_vars

\* The recursive delete was started, having been allowed under a session.
C4_Witness ==
    /\ ret.op = "subprocess_run"
    /\ ret.cmd = CmdRm
    /\ ret.msg = "Allowed under sudo session"

\* C5: between the gate's verdict and subprocess.run nothing asks the session
\* again: the step that leaves the allowed state always starts the subprocess
\* for the allowed command and neither reads nor changes the session, so it
\* does so also when the session has expired meanwhile (the witness).
C5_RunIgnoresExpiry ==
    [][ (xpc = "run" /\ xpc' # "run")
            => /\ ret'.op = "subprocess_run"
               /\ ret'.cmd = xcommand
               /\ sudo_session' = sudo_session
      ]_vars

\* A dangerous command allowed under the session was started at a time when
\* the session, still marked active, had passed its end.
C5_Witness ==
    /\ ret.op = "subprocess_run"
    /\ MatchesDangerousPattern(ret.cmd)
    /\ ret.msg = "Allowed under sudo session"
    /\ sudo_session.active
    /\ ret.num = now
    /\ now - sudo_session.session_start > sudo_mode_duration

(***************************************************************************)
(* Properties of activate_sudo_mode under concurrent callers.              *)
(***************************************************************************)
\* C6: of the calls to activate_sudo_mode that several callers run at once,
\* no two report success for windows that overlap: a second success comes
\* only after the window of the first has ended.
C6_AtMostOneGrant ==
    \A c1 \in Callers, c2 \in Callers :
        (c1 # c2 /\ cres[c1].state = "ok" /\ cres[c2].state = "ok")
            => \/ cres[c1].start_time > cres[c2].end_time
               \/ cres[c2].start_time > cres[c1].end_time

(***************************************************************************)
(* Properties of the response cache.                                       *)
(***************************************************************************)
\* q1 and q2 differ only in letter case and in leading or trailing whitespace:
\* between their first and last characters that are not whitespace they are
\* as long as each other and agree, letter case ignored, place by place.
SameUpToCaseAndPadding(q1, q2) ==
    LET ink1 == {i \in 1..Len(q1) : q1[i] \notin Whitespace}
        ink2 == {i \in 1..Len(q2) : q2[i] \notin Whitespace}
    IN  IF ink1 = {} \/ ink2 = {}
        THEN ink1 = {} /\ ink2 = {}
        ELSE LET a1 == SetMin(ink1) - 1
                 a2 == SetMin(ink2) - 1
                 n == SetMax(ink1) - a1
             IN  /\ n = SetMax(ink2) - a2
                 /\ \A j \in 1..n : LowerChar(q1[a1 + j]) = LowerChar(q2[a2 + j])

\* C7: a get never returns the response of an entry whose ttl has run out
\* (now >= created_at + ttl): it deletes that entry and returns a miss; what
\* a hit returns is the response of an entry of the query that is still valid.
C7_NoExpiredHit ==
    [][ ret'.op = "get"
            => /\ \A i \in 1..Len(cache) :
                    (/\ SameUpToCaseAndPadding(cache[i].key, ret'.cmd)
                     /\ now >= cache[i].created_at + cache[i].ttl)
                        => /\ ~ret'.ok
                           /\ ret'.msg = "None"
                           /\ \A j \in 1..Len(cache') : cache'[j].key # cache[i].key
               /\ ret'.ok
                    => \E i \in 1..Len(cache) :
                          /\ SameUpToCaseAndPadding(cache[i].key, ret'.cmd)
                          /\ now < cache[i].created_at + cache[i].ttl
                          /\ ret'.msg = cache[i].response
      ]_vars

\* A get, made when the positive ttl of the latest set had run out, missed
\* and left no entry of that query in the cache.
C7_Witness ==
    /\ ret.op = "get"
    /\ ~ret.ok
    /\ lastSet.valid
    /\ lastSet.ttl > 0
    /\ ret.cmd = lastSet.query
    /\ now >= lastSet.at + lastSet.ttl
    /\ \A i \in 1..Len(cache) : ~SameUpToCaseAndPadding(cache[i].key, ret.cmd)

\* C8: with no set or clear in between, get(query) made t seconds after
\* set(query, response, ttl) returns that response when t < ttl and a miss
\* when t >= ttl.
C8_GetAfterSet ==
    [][ (ret'.op = "get" /\ lastSet.valid /\ ret'.cmd = lastSet.query)
            => IF now - lastSet.at < lastSet.ttl
               THEN ret'.ok /\ ret'.msg = lastSet.response
               ELSE ~ret'.ok /\ ret'.msg = "None"
      ]_vars

\* A get on a full cache hit the query of the latest set and returned the
\* response that set had stored.
C8_Witness ==
    /\ ret.op = "get"
    /\ ret.ok
    /\ lastSet.valid
    /\ ret.cmd = lastSet.query
    /\ ret.msg = "r2"
    /\ lastSet.response = "r2"
    /\ Len(cache) = max_entries

\* C9: a set on a cache that holds max_entries entries deletes exactly one
\* entry, the first in the dict's order among those of the smallest
\* created_at; every other entry, but the one of the key being set, is kept
\* as it was; a set on a cache below capacity deletes nothing; a get that
\* hits leaves the cache as it was, so hits do not change what is evicted.
C9_EvictsOldest ==
    [][ /\ (ret'.op = "set" /\ Len(cache) >= max_entries)
            => /\ ret'.msg = "evicted"
               /\ \E i \in 1..Len(cache) :
                     /\ cache[i].key = ret'.cmd
                     /\ \A j \in 1..Len(cache) : cache[i].created_at <= cache[j].created_at
                     /\ \A j \in 1..(i - 1) : cache[j].created_at > cache[i].created_at
               /\ \A j \in 1..Len(cache) :
                     (/\ cache[j].key # ret'.cmd
                      /\ ~SameUpToCaseAndPadding(cache[j].key, lastSet'.query))
                        => \E k \in 1..Len(cache') : cache'[k] = cache[j]
               /\ Len(cache') <= max_entries
        /\ (ret'.op = "set" /\ Len(cache) < max_entries)
            => /\ ret'.msg = ""
               /\ \A j \in 1..Len(cache) :
                     ~SameUpToCaseAndPadding(cache[j].key, lastSet'.query)
                        => \E k \in 1..Len(cache') : cache'[k] = cache[j]
        /\ (ret'.op = "get" /\ ret'.ok) => cache' = cache
      ]_vars

\* A set of a new key on a full cache of entries of different ages evicted
\* the oldest: the evicted key is gone and every entry left but the new one
\* is older than now.
C9_Witness ==
    /\ ret.op = "set"
    /\ ret.msg = "evicted"
    /\ Len(cache) = max_entries
    /\ ~SameUpToCaseAndPadding(ret.cmd, lastSet.query)
    /\ \A i \in 1..Len(cache) : cache[i].key # ret.cmd
    /\ \A i \in 1..Len(cache), j \in 1..Len(cache) :
          i # j => cache[i].created_at # cache[j].created_at

\* C10: a get on a query that differs from the query of the latest set only
\* in letter case or surrounding whitespace hits, within the ttl, and returns
\* the response set; after a set the cache holds exactly one entry for the
\* queries that differ from the one set only in that way.
C10_NormalizedKeys ==
    [][ /\ (/\ ret'.op = "get"
            /\ lastSet.valid
            /\ SameUpToCaseAndPadding(ret'.cmd, lastSet.query)
            /\ now - lastSet.at < lastSet.ttl)
            => ret'.ok /\ ret'.msg = lastSet.response
        /\ ret'.op = "set"
            => Cardinality({k \in 1..Len(cache') :
                   SameUpToCaseAndPadding(cache'[k].key, lastSet'.query)}) = 1
      ]_vars

\* A get on a query of another case and padding than the one set hit it.
C10_Witness ==
    /\ ret.op = "get"
    /\ ret.ok
    /\ lastSet.valid
    /\ ret.cmd # lastSet.query
    /\ SameUpToCaseAndPadding(ret.cmd, lastSet.query)
    /\ ret.msg = lastSet.response

(***************************************************************************)
(* Properties of parse_sudo_keyword.                                       *)
(***************************************************************************)
\* The text, letter case and surrounding whitespace aside, is the words of
\* the keyword followed by one token that int() reads as a number within
\* 1..3600.
IsKeywordThenValidInteger(text, keyword) ==
    LET parts == Split(Strip(Lower(text)))
        kparts == Split(Lower(keyword))
    IN  /\ Len(parts) = Len(kparts) + 1
        /\ SubSeq(parts, 1, Len(kparts)) = kparts
        /\ ParseInt(parts[Len(parts)]).ok
        /\ 0 < ParseInt(parts[Len(parts)]).v
        /\ ParseInt(parts[Len(parts)]).v <= 3600

\* C11: for the configured keyword K and a number n, parse_sudo_keyword of
\* K followed by n returns (true, n) when 0 < n <= 3600 and (false, 0) when
\* n <= 0 or n > 3600, never the default duration in place of n; of K alone
\* it returns (true, default duration).
C11_KeywordThenNumber ==
    [][ ret'.op = "parse_sudo_keyword"
            => /\ \A n \in TimeValues :
                    ret'.cmd = KeywordThen(n)
                        => IF 0 < n /\ n <= 3600
                           THEN ret'.ok /\ ret'.num = n
                           ELSE ~ret'.ok /\ ret'.num = 0
               /\ ret'.cmd = sudo_keyword => ret'.ok /\ ret'.num = sudo_mode_duration
      ]_vars

\* C12: parse_sudo_keyword returns is_trigger true only for a text that is
\* the keyword, or the keyword followed by an integer token within 1..3600
\* (the keyword being the configured one or, for the timed variant, its stem
\* "sudo code"); for every other text it returns false with duration 0.
C12_OnlyTwoShapes ==
    [][ ret'.op = "parse_sudo_keyword"
            => /\ ret'.ok
                    => \/ Strip(Lower(ret'.cmd)) = Lower(sudo_keyword)
                       \/ IsKeywordThenValidInteger(ret'.cmd, sudo_keyword)
                       \/ IsKeywordThenValidInteger(ret'.cmd, SudoCode)
               /\ ~ret'.ok => ret'.num = 0
      ]_vars

(***************************************************************************)
(* Properties of activation and deactivation.                              *)
(***************************************************************************)
\* C13: activate_sudo_mode(d), called when no session is valid, succeeds and
\* creates a session with end_time = now + d for the d passed; the remaining
\* time is at most the length of the window, does not increase as the clock
\* advances, and is 0 whenever the session is not active.
C13_ActivateGrantsDuration ==
    [][ /\ (ret'.op = "activate_sudo_mode" /\ ~EnhancedValidAt(now))
            => /\ ret'.ok
               /\ \A d \in 0..MaxDuration :
                     ret'.cmd = Numeral(d)
                        => /\ current_session'.is_active
                           /\ current_session'.start_time = now
                           /\ current_session'.end_time = now + d
        /\ ret'.op = "get_remaining_time"
            => /\ ret'.num <= current_session.end_time - current_session.start_time
               /\ ~EnhancedValidAt(now) => ret'.num = 0
        /\ (ret'.op = "tick" /\ current_session.exists)
            => Session_get_remaining_time(current_session', now')
                  <= Session_get_remaining_time(current_session, now)
      ]_vars

\* C14: deactivate (SudoSession.deactivate of the executor's session,
\* SudoSession.end_session of the manager's session) can always be called,
\* on an active, an expired, an already deactivated or a never activated
\* session, and leaves the session inactive with no time remaining; on an
\* inactive session it changes nothing; as long as the session stays
\* deactivated, is_active is false, the remaining time is 0 and activate succeeds.
C14_DeactivateIdempotent ==
    /\ [](ENABLED SudoSession_deactivate /\ (current_session.exists => ENABLED end_session))
    /\ [][  /\ ret'.op = "SudoSession_deactivate"
                => /\ ~sudo_session'.active
                   /\ \A t \in now..MaxTime : Sudo_remaining_time(sudo_session', t) = 0
                   /\ (~sudo_session.active => sudo_session' = sudo_session)
            /\ ret'.op = "end_session"
                => /\ ~current_session'.is_active
                   /\ \A t \in now..MaxTime : Session_get_remaining_time(current_session', t) = 0
                   /\ (~current_session.is_active => current_session' = current_session)
            /\ ~sudo_session.active
                => /\ (ret'.op = "SudoSession_is_valid" => ~ret'.ok)
                   /\ (ret'.op = "SudoSession_remaining_time" => ret'.num = 0)
                   /\ (ret'.op = "SudoSession_activate" => ret'.ok /\ sudo_session'.active)
            /\ (current_session.exists /\ ~current_session.is_active)
                => /\ (ret'.op = "is_sudo_active" => ~ret'.ok)
                   /\ (ret'.op = "get_remaining_time" => ret'.num = 0)
                   /\ (ret'.op = "activate_sudo_mode" => ret'.ok /\ current_session'.is_active)
          ]_vars

\* The manager's session was ended before its window had run out, and the
\* executor's session is deactivated as well.
C14_Witness ==
    /\ ret.op = "end_session"
    /\ current_session.exists
    /\ ~current_session.is_active
    /\ now < current_session.end_time
    /\ sudo_session = SudoInactive
    /\ now > 0

(***************************************************************************)
(* Properties of the classifier, the router and the fallback chain.        *)
(***************************************************************************)
\* The categories that have patterns, in the order of their declaration.
DeclaredOrder == <<"research", "code", "math", "creative", "factual", "system">>

\* For each query asked, the number of matching patterns of each category.
MatchCounts ==
    [q \in RouterQueries |-> [k \in 1..Len(DeclaredOrder) |-> Score(Lower(q), k)]]

\* C15: detect_task_type returns the category with the highest number of
\* matching patterns, among several of the highest nonzero count the one
\* declared first, and general when every count is zero; it gives code for
\* 'write a python function', factual for 'what is the capital of France'
\* and general for 'hello'; and it changes no state.
C15_ClassifyHighestFirst ==
    [][ ret'.op = "detect_task_type"
            => /\ (\A k \in 1..Len(DeclaredOrder) : MatchCounts[ret'.cmd][k] = 0)
                    => ret'.msg = "general"
               /\ (\E k \in 1..Len(DeclaredOrder) : MatchCounts[ret'.cmd][k] > 0)
                    => \E k \in 1..Len(DeclaredOrder) :
                          /\ ret'.msg = DeclaredOrder[k]
                          /\ \A j \in 1..Len(DeclaredOrder) :
                                /\ MatchCounts[ret'.cmd][j] <= MatchCounts[ret'.cmd][k]
                                /\ j < k => MatchCounts[ret'.cmd][j] < MatchCounts[ret'.cmd][k]
               /\ ret'.cmd = QWritePython => ret'.msg = "code"
               /\ ret'.cmd = QCapital => ret'.msg = "factual"
               /\ ret'.cmd = QHello => ret'.msg = "general"
               /\ UNCHANGED <<now, current_session, execVars, concVars, cacheVars, restVars>>
      ]_vars

\* 'write a python function', which matches one pattern of code and one of
\* creative, was classified as code.
C15_Witness ==
    /\ ret.op = "detect_task_type"
    /\ ret.cmd = QWritePython
    /\ MatchCounts[QWritePython][2] = 1
    /\ MatchCounts[QWritePython][4] = 1
    /\ ret.msg = "code"

\* C16, as stated: get_provider_for_task can always be called, and returns
\* the provider the mapping gives the category, or the default provider when
\* the mapping has no entry for the category.
C16_AsClaimed ==
    [][ ret'.op = "get_provider_for_task"
            => IF ret'.cmd[1] \in DOMAIN provider_mapping
               THEN ret'.msg = provider_mapping[ret'.cmd[1]]
               ELSE ret'.msg = DictGet(provider_mapping, "default", "gemini")
      ]_vars

\* C16, amended: get_provider_for_task can always be called; with smart
\* routing enabled it returns the provider the mapping gives the category,
\* or the default provider (the mapping's "default" entry, gemini when there
\* is none) when the mapping has no entry for the category; with smart
\* routing disabled it returns the default provider for every category.
C16_RouteTotal ==
    /\ [](\A k \in 1..Len(TaskTypes) : ENABLED get_provider_for_task(TaskTypes[k]))
    /\ [][ ret'.op = "get_provider_for_task"
                => IF smart_routing_enabled /\ ret'.cmd[1] \in DOMAIN provider_mapping
                   THEN ret'.msg = provider_mapping[ret'.cmd[1]]
                   ELSE IF "default" \in DOMAIN provider_mapping
                        THEN ret'.msg = provider_mapping["default"]
                        ELSE ret'.msg = "gemini"
          ]_vars

\* With smart routing enabled and the default mapping, which has no entry
\* for general, the router returned the default provider for general.
C16_Witness ==
    /\ ret.op = "get_provider_for_task"
    /\ ret.cmd = <<"general">>
    /\ smart_routing_enabled
    /\ "general" \notin DOMAIN provider_mapping
    /\ provider_mapping["default"] = "gemini"
    /\ ret.msg = "gemini"

\* C17: when the call to the provider query_sync settled on fails, query_sync
\* calls the providers of that provider's fallback chain one after another in
\* the chain's order and returns the first response; it reports failure only
\* when every provider of the chain has failed.
C17_WalksFallbackChain ==
    [][ ret'.op = "AIBackend_query_sync"
            => LET chain == get_full_fallback_chain(ret'.cmd[1])
                   answering == {i \in 1..Len(chain) : _query_provider_answers(chain[i])}
               IN  IF answering = {}
                   THEN ~ret'.ok /\ ret'.cmd = chain
                   ELSE /\ ret'.ok
                        /\ ret'.cmd = SubSeq(chain, 1, SetMin(answering))
                        /\ ret'.msg = chain[SetMin(answering)]
      ]_vars

(***************************************************************************)
(* Properties of the conversation context.                                 *)
(***************************************************************************)
Min(a, b) == IF a <= b THEN a ELSE b

\* The lines of a text: the runs between its newlines, empty ones included.
LinesOf(text) ==
    LET breaks == {i \in 1..Len(text) : text[i] = "\n"}
        n == Cardinality(breaks)
    IN  [k \in 1..(n + 1) |->
            SubSeq(text,
                   IF k = 1 THEN 1 ELSE Kth(breaks, k - 1) + 1,
                   IF k = n + 1 THEN Len(text) ELSE Kth(breaks, k) - 1)]

\* C18: after any sequence of add_turn calls the history holds at most
\* max_history turns, and they are the most recent min(count, max_history)
\* of the turns added, in the order they were added.
C18_HistoryIsMostRecent ==
    /\ Len(history) <= max_history
    /\ Len(history) = Min(Len(added), max_history)
    /\ \A i \in 1..Len(history) :
          history[i] = added[Len(added) - Len(history) + i]

\* add_turn was called max_history + 5 times: the history holds max_history
\* turns, not all alike, and the five oldest are gone.
C18_Witness ==
    /\ ret.op = "add_turn"
    /\ max_history >= 2
    /\ Len(added) = max_history + 5
    /\ Len(history) = max_history
    /\ history[1] = added[6]
    /\ history[1] # history[2]
    /\ added[5] # added[6]

\* C19: get_context returns "No previous context" exactly when the history
\* is empty; otherwise its lines are, for the last min(3, length) turns from
\* the oldest of them to the most recent, the turn's user line followed by
\* its assistant line; and it leaves the history as it was.
C19_RenderLastThree ==
    [][ ret'.op = "get_context"
            => /\ (ret'.cmd = NoPreviousContext) <=> (history = <<>>)
               /\ history' = history
               /\ history # <<>>
                    => LET k == Min(3, Len(history))
                           lines == LinesOf(ret'.cmd)
                       IN  /\ Len(lines) = 2 * k
                           /\ \A i \in 1..k :
                                 /\ lines[2 * i - 1]
                                      = UserPrefix \o history[Len(history) - k + i].user
                                 /\ lines[2 * i]
                                      = AssistantPrefix \o history[Len(history) - k + i].assistant
      ]_vars

\* get_context rendered a history of more than three turns whose first turn
\* differs from its last.
C19_Witness ==
    /\ ret.op = "get_context"
    /\ Len(history) > 3
    /\ history[1] # history[Len(history)]
    /\ Len(LinesOf(ret.cmd)) = 6
    /\ LinesOf(ret.cmd)[5] = UserPrefix \o history[Len(history)].user

\* The step is a query_sync call that repeats, up to letter case and
\* surrounding whitespace, the query of the call before it, which the
\* provider answered successfully.
RepeatsAnsweredQuery ==
    /\ ret'.op = "query_sync"
    /\ lastQuery.valid
    /\ lastQuery.answered
    /\ SameUpToCaseAndPadding(lastQuery'.query, lastQuery.query)

\* C20 as the specification states it: repeating a successfully answered
\* query, up to letter case and surrounding whitespace, before default_ttl
\* has elapsed returns the cached response without calling the provider,
\* and once the ttl has elapsed the provider is called again.
C20_AsClaimed ==
    [][RepeatsAnsweredQuery =>
            IF now - lastQuery.at < default_ttl
            THEN ret'.num = 0 /\ ret'.msg = lastQuery.response
            ELSE ret'.num = 1]_vars

\* C20: with response caching enabled, a query_sync call that uses the cache
\* and repeats, up to letter case and surrounding whitespace, the query of
\* the call before it, which the provider answered successfully, returns
\* that call's response without calling the provider while default_ttl has
\* not elapsed; once it has elapsed the provider is called again, whatever
\* the configuration.
C20_RepeatedQueryIsCached ==
    [][RepeatsAnsweredQuery =>
            IF now - lastQuery.at < default_ttl
            THEN (enable_cache /\ lastQuery'.use_cache) =>
                    (ret'.num = 0 /\ ret'.msg = lastQuery.response
                        /\ ret'.cmd = lastQuery'.query)
            ELSE ret'.num = 1]_vars

\* The cache answered " A\t" with the response the provider gave for "a",
\* and the provider was not called.
C20_Witness ==
    /\ ret.op = "query_sync"
    /\ ret.num = 0
    /\ ret.cmd = <<" ", "A", "\t">>
    /\ lastSet.valid
    /\ lastSet.query = <<"a">>
    /\ ret.msg = lastSet.response
    /\ enable_cache
    /\ cache # <<>>

\* The step is a query_sync call whose provider call failed.
ProviderCallFailed ==
    /\ ret'.op = "query_sync"
    /\ ret'.num = 1
    /\ ~ret'.ok

TemplateIndex(i) ==
    IF i.intent_type = "shell" THEN 1
    ELSE IF i.intent_type = "file" THEN 2
    ELSE IF i.intent_type = "download" THEN 3
    ELSE IF i.intent_type = "app" THEN 4
    ELSE IF i.intent_type = "gui" /\ i.action = WClick THEN 5
    ELSE IF i.intent_type = "gui" /\ i.action = WScroll THEN 6
    ELSE IF i.intent_type = "gui" /\ i.action = WType THEN 7
    ELSE 0

\* The templates that match a text, by their places in the order.
Matching(text) ==
    IF text = <<>> THEN {}
    ELSE {k \in 1..Len(Templates(text)) : Templates(text)[k].exists}

\* parse_intent returned the intent of the first template that matches the
\* text, none when no template matches, and an intent of a known type.
FirstMatchingTemplate ==
    ret.op = "parse_intent" =>
        /\ intent.exists <=> Matching(ret.cmd) # {}
        /\ intent.exists =>
            /\ intent.intent_type \in {"shell", "file", "download", "app", "gui"}
            /\ TemplateIndex(intent) = SetMin(Matching(ret.cmd))
            /\ intent = Templates(ret.cmd)[TemplateIndex(intent)]

\* C23 as the specification states it: parse_intent returns the intent of
\* the first template that matches, in the order shell, file, download,
\* app, gui-click, gui-scroll, gui-type, and every text that starts with
\* "run " yields a shell intent.
C23_AsClaimed ==
    /\ FirstMatchingTemplate
    /\ (ret.op = "parse_intent" /\ MatchAt(ret.cmd, WRun \o <<" ">>, 1)) =>
            (intent.exists /\ intent.intent_type = "shell")

\* C23: parse_intent returns the intent of the first template that matches,
\* in the order shell, file, download, app, gui-click, gui-scroll, gui-type,
\* none when no template matches, and only intents of the types shell, file,
\* download, app and gui; a text that starts with "run " once it is
\* lower-cased and stripped of surrounding whitespace, so that something
\* other than whitespace follows the prefix, yields a shell intent whatever
\* else it contains.
C23_FirstTemplateWins ==
    /\ FirstMatchingTemplate
    /\ (ret.op = "parse_intent" /\ MatchAt(Strip(Lower(ret.cmd)), WRun \o <<" ">>, 1)) =>
            (intent.exists /\ intent.intent_type = "shell")

\* parse_intent was given "Run download open x", which names a download and
\* an application after the shell prefix, and returned a shell intent.
C23_Witness ==
    /\ ret.op = "parse_intent"
    /\ ret.cmd = TRunDownloadOpen
    /\ intent.exists
    /\ intent.intent_type = "shell"
    /\ Matching(ret.cmd) = {1, 3, 4}

\* The keyword test of the template at place k holds of the text.
KeywordPresent(text, k) ==
    LET command_lower == Strip(Lower(text))
    IN  IF k = 2 THEN (Contains(command_lower, WEdit) \/ Contains(command_lower, WOpen))
                        /\ Contains(command_lower, WFile)
        ELSE IF k = 3 THEN Contains(command_lower, WDownload)
        ELSE IF k = 4 THEN Contains(command_lower, WOpen) \/ Contains(command_lower, WLaunch)
                            \/ Contains(command_lower, WStart)
        ELSE IF k = 5 THEN Contains(command_lower, WClick)
        ELSE IF k = 7 THEN Contains(command_lower, WType)
        ELSE FALSE

C22_ExactlyOnePath ==
    [][ret'.op = "_process_command" =>
        /\ Len(calls') = 2
        /\ calls'[1] = "parse_intent"
        /\ intent' = ParsedIntent[ret'.cmd]
        /\ intent'.exists =>
            /\ calls'[2] = "execute"
            /\ UNCHANGED routerVars
        /\ ~intent'.exists =>
            /\ calls'[2] = "query_sync"
            /\ effect' = "none"
            /\ UNCHANGED execVars
      ]_vars

\* _process_command was given "download from http://x.y/f", parsed it as a
\* download, executed it and did not query the backend.
C22_Witness ==
    /\ ret.op = "_process_command"
    /\ ret.cmd = TDownloadFrom
    /\ intent.exists
    /\ intent.intent_type = "download"
    /\ calls = <<"parse_intent", "execute">>
    /\ effect = "urlretrieve"

\* The feature flag an intent that is not a shell command depends on.
FlagOf(i) ==
    IF i.intent_type = "file" THEN features.file_editing
    ELSE IF i.intent_type = "download" THEN features.downloads
    ELSE features.gui_automation

\* The validation the executor makes of the parameter of an intent that is
\* not a shell command.
ParamsValid(i) ==
    IF i.intent_type = "file" THEN i.params.value # <<>>
    ELSE IF i.intent_type = "download"
    THEN /\ i.params.value # <<>>
         /\ MatchAt(i.params.value, Http, 1) \/ MatchAt(i.params.value, Https, 1)
         /\ i.params.value[Len(i.params.value)] = "/"
                \/ ~(\E k \in 1..Len(DownloadName(i.params.value)) :
                        DownloadName(i.params.value)[k] \in {"\\", "\n", "\r"})
    ELSE IF i.intent_type = "app" THEN i.params.value # <<>>
    ELSE TRUE

\* C28: when _process_command executes a file, download, app or gui intent
\* the privilege session is left as it is, the refusal of the dangerous-
\* pattern list is never given, and the operation is carried out exactly
\* when its feature flag is set and its own parameter validation passes,
\* with or without a valid session and whatever the parameter contains.
C28_NonShellBypassesGate ==
    [][(ret'.op = "_process_command" /\ intent'.exists /\ intent'.intent_type # "shell") =>
        /\ UNCHANGED execVars
        /\ ret'.msg \notin {"Command contains dangerous keywords and sudo not active",
                            "Empty command"}
        /\ (ret'.ok \/ effect' # "none") <=> (FlagOf(intent') /\ ParamsValid(intent'))
      ]_vars

\* _process_command was given "open reboot" while no session was valid and
\* the gui flag was set, and the application was started.
C28_Witness ==
    /\ ret.op = "_process_command"
    /\ ret.cmd = TOpenReboot
    /\ intent.intent_type = "app"
    /\ MatchesDangerousPattern(intent.params.value)
    /\ ~ExecutorValidAt(now)
    /\ features.gui_automation
    /\ effect = "Popen"

\* C24: no session manager, and no executor's session, has a default
\* duration that is not positive, and a session granted from the default
\* ends after it starts.
C24_AsClaimed ==
    /\ default_sudo_duration > 0
    /\ duration_seconds > 0
    /\ (ret.op = "activate_sudo_mode" /\ ret.ok /\ ret.cmd = ArgText(NoneArg)) =>
            (current_session.exists /\ current_session.end_time > current_session.start_time)

\* C25: whatever the interleaving of the get and set calls of several
\* callers, no call ends in an error, the cache never holds more entries
\* than its capacity, and a payload that get returns has not expired.
C25_AsClaimed ==
    /\ ret.msg \notin {"KeyError", "ValueError"}
    /\ Len(cache) <= max_entries
    /\ (ret.op = "get" /\ ret.ok) => ret.num > 0

\* A set() that has just re-set a key the cache already held refreshed the
\* entry: it is created at the time of the re-set, with the ttl given, and
\* no entry is younger.
ReSetRefreshes(after) ==
    LET k == Normalize(lastSet'.query)
        j == IndexOf(after, k)
    IN  /\ j # 0
        /\ after[j].created_at = now
        /\ after[j].ttl = lastSet'.ttl
        /\ \A t \in 0..(MaxCacheTime + MaxTtl) :
                Entry_is_valid(after[j], t) <=> t < now + lastSet'.ttl
        /\ \A i \in 1..Len(after) : after[i].created_at <= after[j].created_at

C30_StatsWithinCapacity ==
    [][ret'.op = "get_stats" =>
        /\ max_entries >= 1
        /\ ret'.valid_entries <= ret'.entries
        /\ ret'.entries <= ret'.max_entries
        /\ ret'.max_entries = max_entries
        /\ ret'.entries = Len(cache)
        /\ ret'.valid_entries = Len(cache) - Cardinality({i \in 1..Len(cache) :
                                    now >= cache[i].created_at + cache[i].ttl})
        /\ UNCHANGED <<cache, max_entries>>
        /\ ret.op = "clear" => ret'.entries = 0
      ]_vars

\* get_stats on a full cache of capacity 2 whose entries have both expired
\* and were not looked up: 2 entries, none valid.
C30_Witness ==
    /\ ret.op = "get_stats"
    /\ ret.max_entries = 2
    /\ ret.entries = 2
    /\ ret.valid_entries = 0
    /\ Len(cache) = 2

\* The keys the user information holds.
StoredKeys(info) == {k \in InfoKeys : info[k] # NoValue}

\* C29: set_user_info leaves the history and its bound as they were and
\* changes the value of its key only; add_turn, clear_history and every
\* other step but the construction of the manager leave the user
\* information as it was, so no key it holds is ever dropped, however many
\* it holds and however much time passes.
C29_PreferencesIndependent ==
    [][ /\ ret'.op = "set_user_info" =>
            /\ UNCHANGED <<history, max_history>>
            /\ user_info'[ret'.msg] \in InfoValues
            /\ \A k \in InfoKeys \ {ret'.msg} : user_info'[k] = user_info[k]
        /\ ret'.op \notin {"set_user_info", "ContextManager_init"} =>
            /\ UNCHANGED user_info
            /\ StoredKeys(user_info) \subseteq StoredKeys(user_info')
      ]_vars

\* clear_history ran on a manager of max_history 1 that holds two keys of
\* user information, set before the clock advanced twice: both are still
\* held.
C29_Witness ==
    /\ ret.op = "clear_history"
    /\ max_history = 1
    /\ history = <<>>
    /\ now = MaxCacheTime
    /\ StoredKeys(user_info) = InfoKeys
    /\ Cardinality(StoredKeys(user_info)) > max_history

\* The command contains an entry of the manager's dangerous-command list,
\* letter case ignored.
MatchesDangerousCommand(cmd) ==
    \E k \in 1..Len(dangerous_commands) :
        \E off \in 0..(Len(cmd) - Len(dangerous_commands[k])) :
            \A j \in 1..Len(dangerous_commands[k]) :
                LowerChar(cmd[off + j]) = LowerChar(dangerous_commands[k][j])

HasSudoCode(text) ==
    \E off \in 0..(Len(text) - Len(SudoCode)) :
        \A j \in 1..Len(SudoCode) : LowerChar(text[off + j]) = SudoCode[j]

\* C32: check_sudo_keyword given a text that contains the keyword returns
\* True exactly when the executor's session is valid after the call; given
\* a text without the keyword it returns False and leaves the session as it
\* was.
C32_AsClaimed ==
    [][ret'.op = "check_sudo_keyword" =>
        IF HasSudoCode(ret'.cmd)
        THEN ret'.ok <=> (/\ sudo_session'.active
                          /\ sudo_session'.has_start
                          /\ now - sudo_session'.session_start <= duration_seconds)
        ELSE ~ret'.ok /\ UNCHANGED sudo_session
      ]_vars

\* The waits so far are backoff_factor ** 0, backoff_factor ** 1, ... and
\* one wait lies between each failed attempt and the next.
WaitsBackOff ==
    /\ \A i \in 1..Len(waits) : waits[i] = Power(backoff_factor, i - 1)
    /\ rpc = "call" => Len(waits) = failures /\ func_calls = failures
    /\ retry_outcome = "returned" => Len(waits) = failures /\ func_calls = failures + 1

\* C33 as the claim states it, for every max_retries and backoff_factor:
\* at most max_retries calls, the first success is returned, the waits are
\* the powers of backoff_factor, and a finished call either returned a
\* result of func or re-raised after max_retries failures.
C33_AsClaimed ==
    /\ func_calls <= max_retries
    /\ WaitsBackOff
    /\ rpc = "done" => retry_outcome \in {"returned", "raised"}
    /\ (rpc = "done" /\ failures = max_retries) => retry_outcome = "raised"

\* What holds of retry_with_backoff in every state.
RetryBounded ==
    /\ func_calls <= (IF max_retries > 0 THEN max_retries ELSE 0)
    /\ WaitsBackOff
    /\ retry_outcome = "returned" => rpc = "done"
    /\ retry_outcome = "raised" =>
           /\ rpc = "done"
           /\ failures = max_retries
           /\ func_calls = max_retries
           /\ Len(waits) = max_retries - 1
    /\ (rpc = "done" /\ max_retries >= 1 /\ backoff_factor >= 0) =>
           /\ retry_outcome \in {"returned", "raised"}
           /\ failures = max_retries => retry_outcome = "raised"
    /\ (rpc = "done" /\ max_retries <= 0) =>
           retry_outcome = "returned None" /\ func_calls = 0
    /\ retry_outcome = "sleep raised" =>
           /\ backoff_factor < 0
           /\ Power(backoff_factor, attempt) < 0
           /\ func_calls = attempt + 1
           /\ func_calls < max_retries

\* C33: retry_with_backoff ends whenever func does.  With max_retries >= 1
\* and backoff_factor >= 0 it calls func at most max_retries times, returns
\* at the first call that succeeds, waits backoff_factor ** attempt after
\* the failed attempt number attempt (counted from 0), and re-raises after
\* max_retries failures.  With max_retries <= 0 it returns None without
\* calling func; with a negative backoff_factor the wait after an odd
\* attempt makes time.sleep raise, which ends the call.
C33_RetryBounded ==
    /\ []RetryBounded
    /\ (rpc \in {"call", "sleep"}) ~> (rpc = "done")

C33_Witness ==
    /\ rpc = "done"
    /\ retry_outcome = "raised"
    /\ max_retries = 3
    /\ backoff_factor = 2
    /\ waits = <<1, 2>>
    /\ func_calls = 3

\* C34: once customize_sudo_keyword has replaced a configured keyword,
\* parse_sudo_keyword reports a trigger for the new keyword and none for
\* any phrase built from the configured keyword, the timed form included.
C34_AsClaimed ==
    [][(ret'.op = "parse_sudo_keyword" /\ sudo_keyword \notin ConfiguredKeywords) =>
          /\ ret'.cmd = sudo_keyword => ret'.ok
          /\ ret'.cmd \in OldPhrases => ~ret'.ok
      ]_vars

CachedKeys(c) == {c[i].key : i \in 1..Len(c)}

\* C36: set on a key the cache already holds, the cache being at capacity,
\* replaces that key's entry only: the same keys are held afterwards and
\* the number of entries is still the capacity.
C36_AsClaimed ==
    [][(/\ ret'.op = "set"
        /\ Len(cache) = max_entries
        /\ Normalize(lastSet'.query) \in CachedKeys(cache)) =>
          /\ CachedKeys(cache') = CachedKeys(cache)
          /\ Len(cache') = max_entries
      ]_vars

\* The text after the first word of the trimmed text, trimmed.
TrimmedRemainder(command_text) ==
    LET trimmed == Strip(command_text)
    IN  Strip(Drop(trimmed, Len(Split(trimmed)[1])))

\* C37: for a text whose trimmed, lower-cased form starts with 'run ',
\* 'execute ' or 'shell ', parse_intent returns a shell intent whose action
\* is the trimmed remainder of the text after that first word, however much
\* whitespace surrounds the text.
C37_AsClaimed ==
    [][(/\ ret'.op = "parse_intent"
        /\ StartsWithShellPrefix(Strip(Lower(ret'.cmd)))) =>
          /\ intent'.exists
          /\ intent'.intent_type = "shell"
          /\ intent'.action = TrimmedRemainder(ret'.cmd)
      ]_vars

\* C38: with conversation context enabled, a query_sync whose provider call
\* returned a response appends exactly one turn, the query with the text of
\* the response, to the turns added, whether or not response caching is
\* enabled.
C38_AsClaimed ==
    [][(/\ ret'.op = "query_sync"
        /\ ret'.num = 1
        /\ ret'.ok
        /\ enable_context) =>
          added' = Append(added, NewTurn(lastQuery'.query, ResponseText(ret'.msg), now))
      ]_vars

\* The text query_sync(query, use_cache, include_context) would send to the
\* provider from this state is the text this step sent.
SendsSyncPrompt(query, use_cache, include_context) ==
    ret'.cmd = (IF CacheAnswers(query, use_cache) THEN query
                ELSE enhanced_query(query, include_context))

\* The cache and the history query_sync(query, use_cache) would leave, the
\* provider answering as it did in this step, are the ones this step left.
LeavesSyncState(query, use_cache) ==
    LET response == ret'.msg
        i == IndexOf(cache, Normalize(query))
        found == ConsultsCache(use_cache) /\ i # 0
        looked == IF found /\ ~Entry_is_valid(cache[i], now)
                  THEN RemoveAt(cache, i) ELSE cache
    IN  IF CacheAnswers(query, use_cache)
        THEN UNCHANGED <<cache, history>>
        ELSE IF StoresResponse(response)
        THEN /\ cache' = Put(AfterEviction(looked),
                             NewEntry(query, response, default_ttl, now))
             /\ history' = TrimOldest(Append(history,
                             NewTurn(query, ResponseText(response), now)))
        ELSE cache' = looked /\ UNCHANGED history

\* C39: query_async does what query_sync does from the same cache and
\* history with the same query and flags: the same text goes to the
\* provider, the conversation-context prefix included, and the cache and
\* the history end the same.
C39_AsClaimed ==
    [][\A q \in BackendQueries, u \in BOOLEAN, x \in BOOLEAN :
          query_async(q, u, x) =>
              SendsSyncPrompt(q, u, x) /\ LeavesSyncState(q, u)
      ]_vars
====
